---- MODULE Spec2Model ----
(***************************************************************************)
(* A model of the redis-py server: the command registry and dispatch of    *)
(* redis/server/server.py, the per-connection read loop with its MULTI     *)
(* queue, the lazy-expiry lookup of redis/common/utils.py and the command  *)
(* handlers of redis/server/command/string_command.py,                     *)
(* redis/server_impl/misc_command.py and redis/server_impl/list_command.py.*)
(*                                                                         *)
(* Byte strings are sequences of byte values (0..255).  Time is counted in *)
(* milliseconds.  The string handlers are written against the module-level *)
(* key_space of redis/server/storage.py; the list and key-lifecycle        *)
(* handlers use client.db.key_space.  No command selects another database, *)
(* so both name the keyspace of database 0, the variable key_space.        *)
(***************************************************************************)
EXTENDS Integers, Sequences, FiniteSets, TLC

VARIABLES
    key_space,           \* database 0: function from the present keys to objects
    now,                 \* time.time(), in milliseconds
    clients,             \* RedisServer.clients: addresses in the registry
    loop,                \* per connection: "idle", "running", "ended", "failed"
    stat,                \* per client: RedisClientBase.stat
    multi_command_list,  \* per client: RedisClientBase.multi_command_list
    last,                \* what the most recent request did (reply, calls)
    nreq,                \* number of requests handled so far
    transport,           \* per connection: "none", "open" or "closed"
    name,                \* per client: RedisClientBase.name
    codec                \* the value, its encoding and what was loaded from it

vars == <<key_space, now, clients, loop, stat, multi_command_list, last, nreq,
          transport, name, codec>>

----------------------------------------------------------------------------
(* Bounds *)

MaxReq == 4          \* requests handled in one behaviour of Spec
MaxReqTx == 5        \* requests handled in one behaviour of SpecTx
MaxReqKeys == 3      \* requests handled in one behaviour of SpecKeys
MaxReqForms == 3     \* requests handled in one behaviour of SpecForms
MaxReqWire == 3      \* requests handled in one behaviour of SpecWire
MaxTime == 1000      \* the clock stops ticking here (ms)
MaxQueue == 2        \* longest MULTI queue
MaxStrLen == 2       \* longest string value APPEND may build
MaxIntAbs == 2       \* largest magnitude INCR/DECR may reach
MaxDigits == 19      \* most digits of an integer a request carries
MaxReqArith == 3     \* requests handled in one behaviour of SpecArith
MaxReqBits == 3      \* requests handled in one behaviour of SpecBits
MaxReqBitop == 4     \* requests handled in one behaviour of SpecBitop
MaxReqLists == 4     \* requests handled in one behaviour of SpecLists
MaxReqDel == 4       \* requests handled in one behaviour of SpecDel
MaxReqLists2 == 4    \* requests handled in one behaviour of SpecLists2
MaxReqBitpos == 3    \* requests handled in one behaviour of SpecBitpos
MaxReqSetrange == 4  \* requests handled in one behaviour of SpecSetrange
MaxReqExpiry == 3    \* requests handled in one behaviour of SpecExpiry
MaxReqFlush == 3     \* requests handled in one behaviour of SpecFlush
MaxReqErr == 3       \* requests handled in one behaviour of SpecErr
MaxReqView == 4      \* requests handled in one behaviour of SpecView
MaxDecimal == 30     \* largest coefficient INCRBYFLOAT may reach
MaxListLen == 2      \* longest array the codec is given

TickMs == 500

----------------------------------------------------------------------------
(* Byte-string literals *)

b_GET == <<71, 69, 84>>
b_SET == <<83, 69, 84>>
b_SETNX == <<83, 69, 84, 78, 88>>
b_SETEX == <<83, 69, 84, 69, 88>>
b_STRLEN == <<83, 84, 82, 76, 69, 78>>
b_APPEND == <<65, 80, 80, 69, 78, 68>>
b_INCR == <<73, 78, 67, 82>>
b_DECR == <<68, 69, 67, 82>>
b_INCRBY == <<73, 78, 67, 82, 66, 89>>
b_INCRBYFLOAT == <<73, 78, 67, 82, 66, 89, 70, 76, 79, 65, 84>>
b_05 == <<48, 46, 53>>
b_BITPOS == <<66, 73, 84, 80, 79, 83>>
b_BITOP == <<66, 73, 84, 79, 80>>
b_AND == <<65, 78, 68>>
b_OR == <<79, 82>>
b_XOR == <<88, 79, 82>>
b_NOT == <<78, 79, 84>>
b_SETBIT == <<83, 69, 84, 66, 73, 84>>
b_GETBIT == <<71, 69, 84, 66, 73, 84>>
b_DECRBY == <<68, 69, 67, 82, 66, 89>>
b_DEL == <<68, 69, 76>>
b_DUMP == <<68, 85, 77, 80>>
b_ECHO == <<69, 67, 72, 79>>
b_EXPIRE == <<69, 88, 80, 73, 82, 69>>
b_PERSIST == <<80, 69, 82, 83, 73, 83, 84>>
b_FLUSHDB == <<70, 76, 85, 83, 72, 68, 66>>
b_FLUSHALL == <<70, 76, 85, 83, 72, 65, 76, 76>>
b_MULTI == <<77, 85, 76, 84, 73>>
b_EXEC == <<69, 88, 69, 67>>
b_exec == <<101, 120, 101, 99>>
b_QUIT == <<81, 85, 73, 84>>
b_DISCARD == <<68, 73, 83, 67, 65, 82, 68>>
b_LPUSH == <<76, 80, 85, 83, 72>>
b_LPUSHX == <<76, 80, 85, 83, 72, 88>>
b_LLEN == <<76, 76, 69, 78>>
b_LPOP == <<76, 80, 79, 80>>
b_LRANGE == <<76, 82, 65, 78, 71, 69>>
b_LSET == <<76, 83, 69, 84>>
b_LINSERT == <<76, 73, 78, 83, 69, 82, 84>>
b_LTRIM == <<76, 84, 82, 73, 77>>
b_LREM == <<76, 82, 69, 77>>
b_BEFORE == <<66, 69, 70, 79, 82, 69>>
b_AFTER == <<65, 70, 84, 69, 82>>
b_GETSET == <<71, 69, 84, 83, 69, 84>>
b_SETRANGE == <<83, 69, 84, 82, 65, 78, 71, 69>>
b_m1 == <<45, 49>>
b_m2 == <<45, 50>>
b_b == <<98>>
b_ab == <<97, 98>>
b_del == <<100, 101, 108>>
b_FOO == <<70, 79, 79>>
b_EX == <<69, 88>>
b_PX == <<80, 88>>
b_NX == <<78, 88>>
b_XX == <<88, 88>>
b_CLIENT == <<67, 76, 73, 69, 78, 84>>
b_KILL == <<75, 73, 76, 76>>
b_LIST == <<76, 73, 83, 84>>
b_GETNAME == <<71, 69, 84, 78, 65, 77, 69>>
b_SETNAME == <<83, 69, 84, 78, 65, 77, 69>>
b_c1 == <<99, 49>>
b_c2 == <<99, 50>>
b_c9 == <<99, 57>>
b_k == <<107>>
b_a == <<97>>
b_d == <<100>>
b_s == <<115>>
b_0 == <<48>>
b_1 == <<49>>
b_01 == <<48, 49>>
b_2 == <<50>>
b_7 == <<55>>
b_8 == <<56>>
b_9 == <<57>>
b_16 == <<49, 54>>
b_500 == <<53, 48, 48>>
b_MAX64 == <<57, 50, 50, 51, 51, 55, 50, 48, 51, 54, 56, 53, 52, 55, 55, 53, 56, 48, 55>>  \* 9223372036854775807
b_MIN64 == <<45, 57, 50, 50, 51, 51, 55, 50, 48, 51, 54, 56, 53, 52, 55, 55, 53, 56, 48, 56>>  \* -9223372036854775808

\* bytes.lower() and bytes.upper()
lower(b) == [i \in 1..Len(b) |-> IF b[i] >= 65 /\ b[i] <= 90 THEN b[i] + 32 ELSE b[i]]
upper(b) == [i \in 1..Len(b) |-> IF b[i] >= 97 /\ b[i] <= 122 THEN b[i] - 32 ELSE b[i]]

----------------------------------------------------------------------------
(* int(bytes) and str(int).encode() *)

IsDigits(b) == Len(b) > 0 /\ \A i \in 1..Len(b) : b[i] >= 48 /\ b[i] <= 57

RECURSIVE DigitsValue(_)
DigitsValue(b) ==
    IF Len(b) = 0 THEN 0
    ELSE DigitsValue(SubSeq(b, 1, Len(b) - 1)) * 10 + (b[Len(b)] - 48)

\* int(b) succeeds: an optional sign followed by decimal digits
IsInt(b) ==
    /\ Len(b) > 0
    /\ IF b[1] \in {43, 45} THEN IsDigits(Tail(b)) ELSE IsDigits(b)

int(b) ==
    IF b[1] = 45 THEN 0 - DigitsValue(Tail(b))
    ELSE IF b[1] = 43 THEN DigitsValue(Tail(b))
    ELSE DigitsValue(b)

RECURSIVE NatToBytes(_)
NatToBytes(n) ==
    IF n < 10 THEN <<48 + n>>
    ELSE Append(NatToBytes(n \div 10), 48 + (n % 10))

\* str(n).encode()
str(n) == IF n < 0 THEN <<45>> \o NatToBytes(0 - n) ELSE NatToBytes(n)

----------------------------------------------------------------------------
(* Python's int is unbounded.  An int n with |n| < Limb is <<"int", n>>; a  *)
(* larger one is <<"int", neg, h, m, l>>: its sign and its magnitude        *)
(* h * Limb^2 + m * Limb + l, with 0 <= m, l < Limb.                        *)

Limb == 1000000000

IsNeg(v) == IF Len(v) = 2 THEN v[2] < 0 ELSE v[2]
Magnitude(v) ==
    IF Len(v) = 2 THEN <<0, 0, IF v[2] < 0 THEN 0 - v[2] ELSE v[2]>>
    ELSE <<v[3], v[4], v[5]>>

\* the int of a sign and a magnitude
Canonical(neg, mag) ==
    IF mag[1] = 0 /\ mag[2] = 0 THEN <<"int", IF neg THEN 0 - mag[3] ELSE mag[3]>>
    ELSE <<"int", neg, mag[1], mag[2], mag[3]>>

\* -x and x + y
IntNeg(x) == Canonical(~IsNeg(x), Magnitude(x))

IntAdd(x, y) ==
    LET a == Magnitude(x)
        b == Magnitude(y)
        less(p, q) == \/ p[1] < q[1]
                      \/ p[1] = q[1] /\ p[2] < q[2]
                      \/ p[1] = q[1] /\ p[2] = q[2] /\ p[3] < q[3]
        add == LET l == a[3] + b[3]
                   m == a[2] + b[2] + (l \div Limb)
               IN <<a[1] + b[1] + (m \div Limb), m % Limb, l % Limb>>
        sub(p, q) == LET l == p[3] - q[3]
                         m == p[2] - q[2] - (IF l < 0 THEN 1 ELSE 0)
                     IN <<p[1] - q[1] - (IF m < 0 THEN 1 ELSE 0), m % Limb, l % Limb>>
    IN IF IsNeg(x) = IsNeg(y) THEN Canonical(IsNeg(x), add)
       ELSE IF less(a, b) THEN Canonical(IsNeg(y), sub(b, a))
       ELSE Canonical(IsNeg(x), sub(a, b))

\* int(b) for b with IsInt(b), of up to 27 digits
IntFromBytes(b) ==
    LET digits == IF b[1] \in {43, 45} THEN Tail(b) ELSE b
        n == Len(digits)
        from(i) == IF i < 1 THEN 1 ELSE i
    IN Canonical(b[1] = 45,
                 <<DigitsValue(SubSeq(digits, from(n - 26), n - 18)),
                   DigitsValue(SubSeq(digits, from(n - 17), n - 9)),
                   DigitsValue(SubSeq(digits, from(n - 8), n))>>)

\* str(v).encode()
IntToBytes(v) ==
    LET pad(k) == [i \in 1..9 |-> 48 + ((k \div (10 ^ (9 - i))) % 10)] IN
    IF Len(v) = 2 THEN str(v[2])
    ELSE (IF v[2] THEN <<45>> ELSE <<>>)
         \o (IF v[3] > 0 THEN NatToBytes(v[3]) \o pad(v[4]) ELSE NatToBytes(v[4]))
         \o pad(v[5])

----------------------------------------------------------------------------
(* Value objects (redis/common/objects.py).  A payload is <<"bytes", b>>,  *)
(* <<"int", n>> or <<"list", l>>; expire_time is <<>> for None, else <<t>>.*)

None == <<>>

Obj(cls, payload, expire_time) ==
    [cls |-> cls, value |-> payload, expire_time |-> expire_time]

\* RedisStringObject.__init__: a value that is not bytes is stored as str(value).encode()
RedisStringObject(value, expire_time) ==
    Obj("RedisStringObject",
        IF value[1] = "bytes" THEN value ELSE <<"bytes", IntToBytes(value)>>,
        expire_time)

\* the position of the first point of b, 0 when it has none
PointAt(b) ==
    IF \E i \in 1..Len(b) : b[i] = 46
    THEN CHOOSE i \in 1..Len(b) : b[i] = 46 /\ \A j \in 1..(i - 1) : b[j] # 46
    ELSE 0

\* Decimal(b.decode()) succeeds, for the literals requests carry: an optional
\* sign and digits, with or without a point between two runs of digits
IsDecimal(b) ==
    /\ Len(b) > 0
    /\ LET u == IF b[1] \in {43, 45} THEN Tail(b) ELSE b
           p == PointAt(u)
       IN IF p = 0 THEN IsDigits(u)
          ELSE IsDigits(SubSeq(u, 1, p - 1)) /\ IsDigits(SubSeq(u, p + 1, Len(u)))

\* decimal.Decimal: <<"Decimal", n, e>> is n / 10^e, written with e digits
\* after the point
Decimal(b) ==
    LET u == IF b[1] \in {43, 45} THEN Tail(b) ELSE b
        p == PointAt(u)
        digits == IF p = 0 THEN u ELSE SubSeq(u, 1, p - 1) \o SubSeq(u, p + 1, Len(u))
    IN <<"Decimal",
         IF b[1] = 45 THEN 0 - DigitsValue(digits) ELSE DigitsValue(digits),
         IF p = 0 THEN 0 ELSE Len(u) - p>>

\* x + y of two Decimals: the sum keeps the longer fraction
DecimalAdd(x, y) ==
    LET e == IF x[3] > y[3] THEN x[3] ELSE y[3] IN
    <<"Decimal", x[2] * 10 ^ (e - x[3]) + y[2] * 10 ^ (e - y[3]), e>>

\* str(d).encode() of a Decimal
DecimalStr(d) ==
    LET m == IF d[2] < 0 THEN 0 - d[2] ELSE d[2]
        frac == [i \in 1..d[3] |-> 48 + ((m \div 10 ^ (d[3] - i)) % 10)]
    IN (IF d[2] < 0 THEN <<45>> ELSE <<>>) \o NatToBytes(m \div 10 ^ d[3])
       \o (IF d[3] = 0 THEN <<>> ELSE <<46>> \o frac)

\* RedisObject.expired
expired(obj) == obj.expire_time # None /\ now > obj.expire_time[1]

\* RedisStringObject.get_bytes
get_bytes(obj) ==
    IF obj.value[1] = "bytes" THEN obj.value[2]
    ELSE IF obj.value[1] = "Decimal" THEN DecimalStr(obj.value)
    ELSE IntToBytes(obj.value)

\* RedisStringObject.get_integer succeeds (int(self.value) does not raise)
CanGetInteger(obj) ==
    \/ obj.value[1] = "int"
    \/ obj.value[1] = "bytes" /\ IsInt(obj.value[2])

\* RedisStringObject.get_decimal succeeds
CanGetDecimal(obj) == obj.value[1] # "bytes" \/ IsDecimal(obj.value[2])

get_decimal(obj) ==
    IF obj.value[1] = "Decimal" THEN obj.value ELSE Decimal(get_bytes(obj))

get_integer(obj) ==
    IF obj.value[1] = "int" THEN obj.value ELSE IntFromBytes(obj.value[2])

\* the object with its value replaced (the value setter)
SetValue(obj, payload) == [obj EXCEPT !.value = payload]

\* dict operations on the keyspace
Has(ks, key) == key \in DOMAIN ks
Put(ks, key, obj) == [x \in DOMAIN ks \cup {key} |-> IF x = key THEN obj ELSE ks[x]]
Del(ks, key) == [x \in DOMAIN ks \ {key} |-> ks[x]]
EmptyKeySpace == [x \in {} |-> None]

----------------------------------------------------------------------------
(* Outcomes of a call.  A handler works on a world W = [ks, stat, mcl, ran]:*)
(* the keyspace, every client's stat and multi_command_list, and the log of*)
(* handler invocations <<client, argv>> made while serving one request.    *)
(* out is "return" or the class of the exception that was raised.          *)

Return(W, val) == [W |-> W, out |-> "return", val |-> val]
Raise(W, exc, args) == [W |-> W, out |-> exc, val |-> args]

\* redis.common.utils.abort
abort(W, errtype, message) == Raise(W, "CommandError", <<errtype, message>>)

WithKs(W, ks) == [W EXCEPT !.ks = ks]

\* Python values a handler returns
True == <<"True">>
PyNone == <<"None">>
PyInt(n) == <<"int", n>>
PyBytes(b) == <<"bytes", b>>
PyList(l) == <<"list", l>>

\* serialization objects (redis/common/proto.py)
RedisSimpleStringSerializationObject(s) == <<"SimpleString", s>>
RedisErrorStringSerializationObject(errtype, message) == <<"ErrorString", errtype, message>>
RedisIntegerSerializationObject(n) == <<"Integer", n>>
RedisBulkStringSerializationObject(v) == <<"BulkString", v>>
RedisListSerializationObject(l) == <<"List", l>>

IsSerializationObject(v) ==
    v[1] \in {"SimpleString", "ErrorString", "Integer", "BulkString", "List"}

WRONGTYPE(W) ==
    abort(W, "WRONGTYPE", <<"Operation against a key holding the wrong kind of value">>)

STAT_NORMAL == 0
STAT_MULTI == 1

----------------------------------------------------------------------------
(* redis.common.utils.get_object: out is "obj" (the object is ks[key]), or *)
(* the exception raised; an expired entry is deleted before KeyError.      *)

isinstance(obj, type) == type = "RedisObject" \/ obj.cls = type

\* get_object without the deletion of the expired entry
get_object_keeps_expired(ks, key, type) ==
    IF ~Has(ks, key) THEN [ks |-> ks, out |-> "KeyError"]
    ELSE IF expired(ks[key]) THEN [ks |-> ks, out |-> "KeyError"]
    ELSE IF ~isinstance(ks[key], type) THEN [ks |-> ks, out |-> "ValueError"]
    ELSE [ks |-> ks, out |-> "obj"]

get_object(ks, key, type) ==
    IF ~Has(ks, key) THEN [ks |-> ks, out |-> "KeyError"]
    ELSE IF expired(ks[key]) THEN [ks |-> Del(ks, key), out |-> "KeyError"]
    ELSE IF ~isinstance(ks[key], type) THEN [ks |-> ks, out |-> "ValueError"]
    ELSE [ks |-> ks, out |-> "obj"]

\* RedisListObject.__init__ accepts a generator or a RedisListObject only;
\* the default argument [] is a list
RedisListObjectAccepts(kind) == kind \in {"generator", "RedisListObject"}

\* RedisListObject.push: each value becomes the new head, in argument order
RECURSIVE push(_, _)
push(l, values) ==
    IF Len(values) = 0 THEN l ELSE push(<<Head(values)>> \o l, Tail(values))

----------------------------------------------------------------------------
(* String handlers (redis/server/command/string_command.py) *)

get_handler(W, c, argv) ==
    LET key == argv[2] IN
    IF ~Has(W.ks, key) THEN Return(W, PyNone)
    ELSE IF expired(W.ks[key]) THEN Return(WithKs(W, Del(W.ks, key)), PyNone)
    ELSE IF ~isinstance(W.ks[key], "RedisStringObject") THEN WRONGTYPE(W)
    ELSE Return(W, PyBytes(get_bytes(W.ks[key])))

\* the option loop of set_handler, from cur_index on; acc = [expire_time, nx, xx, err]
RECURSIVE SetOptions(_, _, _)
SetOptions(argv, cur_index, acc) ==
    IF acc.err \/ cur_index > Len(argv) THEN acc
    ELSE LET argname == lower(argv[cur_index])
             base == IF acc.expire_time = None THEN now ELSE acc.expire_time[1]
         IN
         IF argname \in {lower(b_EX), lower(b_PX)} THEN
             IF cur_index = Len(argv) \/ ~IsInt(argv[cur_index + 1])
             THEN [acc EXCEPT !.err = TRUE]
             ELSE SetOptions(argv, cur_index + 2,
                     [acc EXCEPT !.expire_time =
                         <<base + (IF argname = lower(b_EX) THEN 1000 ELSE 1)
                                    * int(argv[cur_index + 1])>>])
         ELSE IF argname = lower(b_NX) THEN
             SetOptions(argv, cur_index + 1, [acc EXCEPT !.nx = TRUE])
         ELSE IF argname = lower(b_XX) THEN
             SetOptions(argv, cur_index + 1, [acc EXCEPT !.xx = TRUE])
         ELSE [acc EXCEPT !.err = TRUE]

\* value = int(value) when it parses, else the bytes as given
IntCoerced(value) == IF IsInt(value) THEN IntFromBytes(value) ELSE PyBytes(value)

set_handler(W, c, argv) ==
    LET key == argv[2]
        value == argv[3]
        o == SetOptions(argv, 4, [expire_time |-> None, nx |-> FALSE, xx |-> FALSE, err |-> FALSE])
    IN
    IF o.err THEN abort(W, "ERR", <<"syntax error">>)
    ELSE IF o.nx /\ o.xx THEN abort(W, "ERR", <<"syntax error">>)
    ELSE IF o.nx /\ Has(W.ks, key) THEN Return(W, PyNone)
    ELSE IF o.xx /\ ~Has(W.ks, key) THEN Return(W, PyNone)
    ELSE Return(WithKs(W, Put(W.ks, key, RedisStringObject(IntCoerced(value), o.expire_time))), True)

\* setex_handler; time.time() + seconds, in milliseconds
setex_handler(W, c, argv) ==
    LET key == argv[2]
        value == argv[4]
    IN
    IF ~IsInt(argv[3]) THEN abort(W, "ERR", <<"value is not an integer or out of range">>)
    ELSE IF int(argv[3]) <= 0 THEN abort(W, "ERR", <<"invalid expire time in SETEX">>)
    ELSE Return(WithKs(W, Put(W.ks, key,
                    RedisStringObject(PyBytes(value), <<now + 1000 * int(argv[3])>>))), True)

setnx_handler(W, c, argv) ==
    LET key == argv[2]
        value == argv[3]
    IN
    IF Has(W.ks, key) THEN Return(W, PyInt(0))
    ELSE Return(WithKs(W, Put(W.ks, key, RedisStringObject(PyBytes(value), None))), PyInt(1))

strlen_handler(W, c, argv) ==
    LET key == argv[2] IN
    IF ~Has(W.ks, key) THEN Return(W, PyInt(0))
    ELSE IF ~isinstance(W.ks[key], "RedisStringObject") THEN WRONGTYPE(W)
    ELSE Return(W, PyInt(Len(get_bytes(W.ks[key]))))

append_handler(W, c, argv) ==
    LET key == argv[2]
        value == argv[3]
    IN
    IF ~Has(W.ks, key)
    THEN Return(WithKs(W, Put(W.ks, key, RedisStringObject(IntCoerced(value), None))),
                PyInt(Len(value)))
    ELSE IF ~isinstance(W.ks[key], "RedisStringObject") THEN WRONGTYPE(W)
    ELSE LET newval == get_bytes(W.ks[key]) \o value IN
         Return(WithKs(W, Put(W.ks, key, SetValue(W.ks[key], PyBytes(newval)))),
                PyInt(Len(newval)))

\* the four handlers after the increment was parsed: incr_handler (delta = 1),
\* decr_handler (delta = -1), incrby_handler, decrby_handler
IncrDecr(W, argv, delta) ==
    LET key == argv[2] IN
    IF ~Has(W.ks, key)
    THEN Return(WithKs(W, Put(W.ks, key,
                    SetValue(RedisStringObject(PyBytes(<<>>), None), delta))),
                delta)
    ELSE IF ~isinstance(W.ks[key], "RedisStringObject") THEN WRONGTYPE(W)
    ELSE IF ~CanGetInteger(W.ks[key])
         THEN abort(W, "ERR", <<"value is not an integer or out of range">>)
    ELSE LET value == IntAdd(get_integer(W.ks[key]), delta) IN
         Return(WithKs(W, Put(W.ks, key, SetValue(W.ks[key], value))), value)

incr_handler(W, c, argv) == IncrDecr(W, argv, PyInt(1))
decr_handler(W, c, argv) == IncrDecr(W, argv, PyInt(0 - 1))

incrby_handler(W, c, argv) ==
    IF ~IsInt(argv[3]) THEN abort(W, "ERR", <<"value is not an integer or out of range">>)
    ELSE IncrDecr(W, argv, IntFromBytes(argv[3]))

\* incrbyfloat_handler; the new value is kept as a Decimal
incrbyfloat_handler(W, c, argv) ==
    LET key == argv[2] IN
    IF ~IsDecimal(argv[3]) THEN abort(W, "ERR", <<"value is not a valid float">>)
    ELSE IF ~Has(W.ks, key)
    THEN LET value == DecimalAdd(Decimal(<<48>>), Decimal(argv[3])) IN
         Return(WithKs(W, Put(W.ks, key,
                    SetValue(RedisStringObject(PyBytes(<<48>>), None), value))),
                PyBytes(DecimalStr(value)))
    ELSE IF ~isinstance(W.ks[key], "RedisStringObject") THEN WRONGTYPE(W)
    ELSE IF ~CanGetDecimal(W.ks[key]) THEN abort(W, "ERR", <<"value is not a valid float">>)
    ELSE LET value == DecimalAdd(get_decimal(W.ks[key]), Decimal(argv[3])) IN
         Return(WithKs(W, Put(W.ks, key, SetValue(W.ks[key], value))),
                PyBytes(DecimalStr(value)))

\* bitarray.frombytes and bitarray.tobytes (big-endian bit order): the bits
\* of each byte from the most significant one; tobytes pads with zero bits
frombytes(b) ==
    [i \in 1..(8 * Len(b)) |-> (b[((i - 1) \div 8) + 1] \div (2 ^ (7 - ((i - 1) % 8)))) % 2]

tobytes(ba) ==
    LET bit(p) == IF p <= Len(ba) THEN ba[p] ELSE 0 IN
    [j \in 1..((Len(ba) + 7) \div 8) |->
        128 * bit(8 * j - 7) + 64 * bit(8 * j - 6) + 32 * bit(8 * j - 5) + 16 * bit(8 * j - 4)
        + 8 * bit(8 * j - 3) + 4 * bit(8 * j - 2) + 2 * bit(8 * j - 1) + bit(8 * j)]

\* ba[offset]: the index of the bit in 1..Len(ba), 0 when Python raises IndexError
BitIndex(ba, offset) ==
    LET i == IF offset >= 0 THEN offset + 1 ELSE Len(ba) + offset + 1 IN
    IF i >= 1 /\ i <= Len(ba) THEN i ELSE 0

\* setbit_handler; the key is created before the bit is assigned, and the
\* bits are extended only when there are fewer of them than offset (the
\* requests the model draws carry the values 0 and 1)
setbit_handler(W, c, argv) ==
    LET key == argv[2] IN
    IF Has(W.ks, key) /\ ~isinstance(W.ks[key], "RedisStringObject") THEN WRONGTYPE(W)
    ELSE IF ~IsInt(argv[3]) \/ ~IsInt(argv[4])
    THEN abort(W, "ERR", <<"bit offset is not an integer or out of range">>)
    ELSE LET offset == int(argv[3])
             value == int(argv[4])
             ks == IF Has(W.ks, key) THEN W.ks
                   ELSE Put(W.ks, key, RedisStringObject(PyBytes(<<>>), None))
             read == IF Has(W.ks, key) THEN frombytes(get_bytes(W.ks[key])) ELSE <<>>
             ba == IF Len(read) < offset
                   THEN read \o [i \in 1..(offset - Len(read) + 1) |-> 0]
                   ELSE read
             at == BitIndex(ba, offset)
         IN IF at = 0 THEN Raise(WithKs(W, ks), "IndexError", <<>>)
            ELSE Return(WithKs(W, Put(ks, key,
                            SetValue(ks[key], PyBytes(tobytes([ba EXCEPT ![at] = value]))))),
                        True)

getbit_handler(W, c, argv) ==
    LET key == argv[2] IN
    IF ~IsInt(argv[3]) THEN abort(W, "ERR", <<"bit offset is not an integer or out of range">>)
    ELSE IF ~Has(W.ks, key) THEN Return(W, PyInt(0))
    ELSE IF ~isinstance(W.ks[key], "RedisStringObject") THEN WRONGTYPE(W)
    ELSE LET ba == frombytes(get_bytes(W.ks[key]))
             at == BitIndex(ba, int(argv[3]))
         IN Return(W, PyInt(IF at = 0 THEN 0 ELSE ba[at]))

\* the loop of bitop_handler over keys[1:]; dest_ba is <<"WRONGTYPE">> once a
\* key holds another type
RECURSIVE BitopLoop(_, _, _, _, _)
BitopLoop(ks, operation, keys, i, dest_ba) ==
    IF i > Len(keys) \/ dest_ba = <<"WRONGTYPE">> THEN dest_ba
    ELSE IF ~Has(ks, keys[i])
    THEN BitopLoop(ks, operation, keys, i + 1,
                   [j \in 1..Len(dest_ba) |->
                       IF operation = b_AND THEN 0 ELSE dest_ba[j]])
    ELSE IF ~isinstance(ks[keys[i]], "RedisStringObject") THEN <<"WRONGTYPE">>
    ELSE LET src_ba == frombytes(get_bytes(ks[keys[i]]))
             n == IF Len(src_ba) > Len(dest_ba) THEN Len(src_ba) ELSE Len(dest_ba)
             a(j) == IF j <= Len(dest_ba) THEN dest_ba[j] ELSE 0
             b(j) == IF j <= Len(src_ba) THEN src_ba[j] ELSE 0
         IN BitopLoop(ks, operation, keys, i + 1,
                      [j \in 1..n |->
                          IF operation = b_AND THEN a(j) * b(j)
                          ELSE IF operation = b_OR THEN (IF a(j) + b(j) > 0 THEN 1 ELSE 0)
                          ELSE (a(j) + b(j)) % 2])

\* the sources after the first left out of the operation
bitop_handler_first_source_only(W, c, argv) ==
    LET operation == upper(argv[2])
        destkey == argv[3]
        keys == SubSeq(argv, 4, Len(argv))
        first == IF Has(W.ks, keys[1]) /\ isinstance(W.ks[keys[1]], "RedisStringObject")
                 THEN get_bytes(W.ks[keys[1]]) ELSE <<>>
    IN Return(WithKs(W, Put(W.ks, destkey, RedisStringObject(PyBytes(first), None))),
              PyInt(Len(first)))

bitop_handler(W, c, argv) ==
    LET operation == upper(argv[2])
        destkey == argv[3]
        keys == SubSeq(argv, 4, Len(argv))
    IN
    IF operation \notin {b_AND, b_OR, b_XOR, b_NOT}
    THEN abort(W, "ERR", <<"Don't know what to do for \"bitop\"">>)
    ELSE IF operation = b_NOT
    THEN (IF Len(keys) > 1
          THEN abort(W, "ERR", <<"BITOP NOT must be called with a single source key.">>)
          ELSE IF ~Has(W.ks, keys[1]) THEN Return(W, PyInt(0))
          ELSE IF ~isinstance(W.ks[keys[1]], "RedisStringObject") THEN WRONGTYPE(W)
          ELSE LET ba == frombytes(get_bytes(W.ks[keys[1]]))
                   inverted == tobytes([j \in 1..Len(ba) |-> 1 - ba[j]])
               IN Return(WithKs(W, Put(W.ks, destkey,
                                       RedisStringObject(PyBytes(inverted), None))),
                         PyInt(Len(inverted))))
    ELSE IF Has(W.ks, keys[1]) /\ ~isinstance(W.ks[keys[1]], "RedisStringObject")
    THEN WRONGTYPE(W)
    ELSE LET first == IF Has(W.ks, keys[1]) THEN frombytes(get_bytes(W.ks[keys[1]])) ELSE <<>>
             dest_ba == BitopLoop(W.ks, operation, keys, 2, first)
         IN IF dest_ba = <<"WRONGTYPE">> THEN WRONGTYPE(W)
            ELSE Return(WithKs(W, Put(W.ks, destkey,
                                      RedisStringObject(PyBytes(tobytes(dest_ba)), None))),
                        PyInt(Len(tobytes(dest_ba))))

\* the decrement added instead of subtracted
decrby_handler_adds(W, c, argv) ==
    IF ~IsInt(argv[3]) THEN abort(W, "ERR", <<"value is not an integer or out of range">>)
    ELSE IncrDecr(W, argv, IntFromBytes(argv[3]))

decrby_handler(W, c, argv) ==
    IF ~IsInt(argv[3]) THEN abort(W, "ERR", <<"value is not an integer or out of range">>)
    ELSE IncrDecr(W, argv, IntNeg(IntFromBytes(argv[3])))

\* list[a:b] of Python for integers a and b
PySlice(l, a, b) ==
    LET clamp(i) == IF i < 0 THEN (IF Len(l) + i < 0 THEN 0 ELSE Len(l) + i)
                    ELSE IF i > Len(l) THEN Len(l) ELSE i
    IN SubSeq(l, clamp(a) + 1, clamp(b))

\* bitpos_handler; a missing key is searched as the one bit 0, and
\* ba.search(bit, 1) gives the first position of bit in ba, if any
bitpos_handler(W, c, argv) ==
    LET key == argv[2] IN
    IF ~IsInt(argv[3]) THEN abort(W, "ERR", <<"value is not an integer or out of range">>)
    ELSE IF int(argv[3]) \notin {0, 1} THEN abort(W, "ERR", <<"The bit argument must be 1 or 0.">>)
    ELSE IF Len(argv) > 5 THEN abort(W, "ERR", <<"syntax error">>)
    ELSE IF Len(argv) >= 4 /\ ~IsInt(argv[4])
    THEN abort(W, "ERR", <<"value is not an integer or out of range">>)
    ELSE IF Len(argv) >= 5 /\ ~IsInt(argv[5])
    THEN abort(W, "ERR", <<"value is not an integer or out of range">>)
    ELSE IF Has(W.ks, key) /\ ~isinstance(W.ks[key], "RedisStringObject") THEN WRONGTYPE(W)
    ELSE LET bit == int(argv[3])
             read == IF Has(W.ks, key) THEN get_bytes(W.ks[key]) ELSE <<>>
             start == IF Len(argv) < 4 THEN 0
                      ELSE IF int(argv[4]) < 0 THEN Len(read) + int(argv[4]) ELSE int(argv[4])
             end == IF Len(argv) < 5 THEN Len(read)
                    ELSE IF int(argv[5]) < 0 THEN Len(read) + int(argv[5]) + 1
                    ELSE int(argv[5]) + 1
             begin_pos == IF Has(W.ks, key) THEN start * 8 ELSE 0
             ba == IF Has(W.ks, key) THEN frombytes(PySlice(read, start, end)) ELSE <<0>>
             pos == {i \in 1..Len(ba) : ba[i] = bit}
         IN IF pos = {} THEN Return(W, PyInt(0 - 1))
            ELSE Return(W, PyInt((CHOOSE i \in pos : \A j \in pos : i <= j) - 1 + begin_pos))

setrange_handler(W, c, argv) ==
    LET key == argv[2]
        value == argv[4]
    IN
    IF ~IsInt(argv[3]) THEN abort(W, "ERR", <<"value is not an integer or out of range">>)
    ELSE IF Has(W.ks, key) /\ ~isinstance(W.ks[key], "RedisStringObject") THEN WRONGTYPE(W)
    ELSE LET offset == int(argv[3])
             obj == IF Has(W.ks, key) THEN W.ks[key]
                    ELSE RedisStringObject(PyBytes(<<>>), None)
             read == get_bytes(obj)
             stor_value == IF Len(read) < offset
                           THEN read \o [i \in 1..(offset - Len(read)) |-> 0] \o value
                           ELSE PySlice(read, 0, offset + 1) \o value
         IN Return(WithKs(W, Put(W.ks, key, SetValue(obj, PyBytes(stor_value)))),
                   PyInt(Len(stor_value)))

getset_handler(W, c, argv) ==
    LET key == argv[2]
        value == IntCoerced(argv[3])
    IN
    IF Has(W.ks, key) /\ ~isinstance(W.ks[key], "RedisStringObject") THEN WRONGTYPE(W)
    ELSE IF Has(W.ks, key)
    THEN Return(WithKs(W, Put(W.ks, key, SetValue(W.ks[key], value))),
                PyBytes(get_bytes(W.ks[key])))
    ELSE Return(WithKs(W, Put(W.ks, key, RedisStringObject(value, None))), PyNone)

\* quit_handler: close_connection() raises ClientQuitError
quit_handler(W, c, argv) == Raise(W, "ClientQuitError", <<>>)

----------------------------------------------------------------------------
(* List handlers (redis/server_impl/list_command.py).  get_object reports a*)
(* type mismatch with ValueError; the handlers catch KeyError and TypeError.*)

lpush_handler(W, c, argv) ==
    LET key == argv[2]
        values == SubSeq(argv, 3, Len(argv))
        g == get_object(W.ks, key, "RedisListObject")
        W1 == WithKs(W, g.ks)
    IN
    IF g.out = "KeyError" THEN
        \* obj = RedisListObject(): the default value [] is a list
        IF ~RedisListObjectAccepts("list")
        THEN Raise(W1, "ValueError", <<"Value should be a list or RedisListObject">>)
        ELSE LET l == push(<<>>, values) IN
             Return(WithKs(W1, Put(W1.ks, key, Obj("RedisListObject", PyList(l), None))),
                    PyInt(Len(l)))
    ELSE IF g.out = "TypeError" THEN WRONGTYPE(W1)
    ELSE IF g.out # "obj" THEN Raise(W1, g.out, <<"is not a RedisListObject">>)
    ELSE LET l == push(W1.ks[key].value[2], values) IN
         Return(WithKs(W1, Put(W1.ks, key, SetValue(W1.ks[key], PyList(l)))), PyInt(Len(l)))

lpushx_handler(W, c, argv) ==
    LET key == argv[2]
        g == get_object(W.ks, key, "RedisListObject")
        W1 == WithKs(W, g.ks)
    IN
    IF g.out = "KeyError" THEN Return(W1, PyInt(0))
    ELSE IF g.out = "TypeError" THEN WRONGTYPE(W1)
    ELSE IF g.out # "obj" THEN Raise(W1, g.out, <<"is not a RedisListObject">>)
    ELSE LET l == push(W1.ks[key].value[2], <<argv[3]>>) IN
         Return(WithKs(W1, Put(W1.ks, key, SetValue(W1.ks[key], PyList(l)))), PyInt(Len(l)))

llen_handler(W, c, argv) ==
    LET key == argv[2]
        g == get_object(W.ks, key, "RedisListObject")
        W1 == WithKs(W, g.ks)
    IN
    IF g.out = "KeyError" THEN Return(W1, PyInt(0))
    ELSE IF g.out = "TypeError" THEN WRONGTYPE(W1)
    ELSE IF g.out # "obj" THEN Raise(W1, g.out, <<"is not a RedisListObject">>)
    ELSE Return(W1, PyInt(Len(W1.ks[key].value[2])))

lpop_handler(W, c, argv) ==
    LET key == argv[2]
        g == get_object(W.ks, key, "RedisListObject")
        W1 == WithKs(W, g.ks)
    IN
    IF g.out = "KeyError" THEN Return(W1, PyInt(0))
    ELSE IF g.out = "TypeError" THEN WRONGTYPE(W1)
    ELSE IF g.out # "obj" THEN Raise(W1, g.out, <<"is not a RedisListObject">>)
    ELSE LET l == W1.ks[key].value[2] IN
         IF Len(l) = 0 THEN Return(W1, PyNone)
         ELSE Return(WithKs(W1, Put(W1.ks, key, SetValue(W1.ks[key], PyList(Tail(l))))),
                     PyBytes(Head(l)))

lrange_handler(W, c, argv) ==
    LET key == argv[2]
        g == get_object(W.ks, key, "RedisListObject")
        W1 == WithKs(W, g.ks)
    IN
    IF ~IsInt(argv[3]) \/ ~IsInt(argv[4])
    THEN abort(W, "ERR", <<"value is not an integer or out of range">>)
    ELSE IF g.out = "KeyError" THEN Return(W1, PyList(<<>>))
    ELSE IF g.out = "TypeError" THEN WRONGTYPE(W1)
    ELSE IF g.out # "obj" THEN Raise(W1, g.out, <<"is not a RedisListObject">>)
    ELSE LET l == W1.ks[key].value[2]
             start == IF int(argv[3]) < 0 THEN Len(l) + int(argv[3]) ELSE int(argv[3])
             stop == IF int(argv[4]) < 0 THEN Len(l) + int(argv[4]) ELSE int(argv[4])
             range == PySlice(l, start, stop + 1)
         IN Return(W1, PyList([i \in 1..Len(range) |-> PyBytes(range[i])]))

\* list[index] of Python addresses an element: its position from 1, or 0
PyIndex(l, index) ==
    IF index >= 0 /\ index < Len(l) THEN index + 1
    ELSE IF index < 0 /\ Len(l) + index >= 0 THEN Len(l) + index + 1
    ELSE 0

lset_handler(W, c, argv) ==
    LET key == argv[2]
        value == argv[4]
        g == get_object(W.ks, key, "RedisListObject")
        W1 == WithKs(W, g.ks)
    IN
    IF ~IsInt(argv[3]) THEN abort(W, "ERR", <<"value is not an integer or out of range">>)
    ELSE IF g.out = "KeyError" THEN abort(W1, "ERR", <<"index out of range">>)
    ELSE IF g.out = "TypeError" THEN WRONGTYPE(W1)
    ELSE IF g.out # "obj" THEN Raise(W1, g.out, <<"is not a RedisListObject">>)
    ELSE LET l == W1.ks[key].value[2]
             index == IF int(argv[3]) < 0 THEN Len(l) + int(argv[3]) ELSE int(argv[3])
             at == PyIndex(l, index)
         IN IF at = 0 THEN abort(W1, "ERR", <<"index out of range">>)
            ELSE Return(WithKs(W1, Put(W1.ks, key,
                            SetValue(W1.ks[key], PyList([l EXCEPT ![at] = value])))),
                        True)

\* list.index(value): the position from 0 of the first occurrence, or -1
ListIndex(l, value) ==
    IF \E i \in 1..Len(l) : l[i] = value
    THEN (CHOOSE i \in 1..Len(l) : l[i] = value /\ \A j \in 1..(i - 1) : l[j] # value) - 1
    ELSE 0 - 1

linsert(W, c, argv) ==
    LET key == argv[2]
        op == upper(argv[3])
        pivot == argv[4]
        value == argv[5]
        g == get_object(W.ks, key, "RedisListObject")
        W1 == WithKs(W, g.ks)
    IN
    IF op \notin {b_BEFORE, b_AFTER} THEN abort(W, "ERR", <<"syntax error">>)
    ELSE IF g.out = "KeyError" THEN Return(W1, PyNone)
    ELSE IF g.out = "TypeError" THEN WRONGTYPE(W1)
    ELSE IF g.out # "obj" THEN Raise(W1, g.out, <<"is not a RedisListObject">>)
    ELSE LET l == W1.ks[key].value[2]
             index == ListIndex(l, pivot)
             at == IF op = b_BEFORE THEN index ELSE index + 1
         IN IF index < 0 THEN Return(W1, PyNone)
            ELSE IF at >= Len(l) \/ at < 0 THEN Raise(W1, "IndexError", <<"Out of range">>)
            ELSE LET inserted == SubSeq(l, 1, at) \o <<value>> \o SubSeq(l, at + 1, Len(l)) IN
                 Return(WithKs(W1, Put(W1.ks, key, SetValue(W1.ks[key], PyList(inserted)))),
                        PyInt(Len(inserted)))

\* the loop of lrem_handler: list.remove(value) until count is used up or
\* value is no longer in objlst
RECURSIVE RemoveLoop(_, _, _, _)
RemoveLoop(objlst, value, count, counter) ==
    IF count = 0 \/ ListIndex(objlst, value) < 0
    THEN [objlst |-> objlst, counter |-> counter]
    ELSE LET at == ListIndex(objlst, value) + 1 IN
         RemoveLoop(SubSeq(objlst, 1, at - 1) \o SubSeq(objlst, at + 1, Len(objlst)),
                    value, count - 1, counter + 1)

\* list[::-1]
Reversed(l) == [i \in 1..Len(l) |-> l[Len(l) + 1 - i]]

lrem_handler(W, c, argv) ==
    LET key == argv[2]
        value == argv[4]
        g == get_object(W.ks, key, "RedisListObject")
        W1 == WithKs(W, g.ks)
    IN
    IF ~IsInt(argv[3]) THEN abort(W, "ERR", <<"value is not an integer or out of range">>)
    ELSE IF g.out = "KeyError" THEN Return(W1, PyInt(0))
    ELSE IF g.out = "TypeError" THEN WRONGTYPE(W1)
    ELSE IF g.out # "obj" THEN Raise(W1, g.out, <<"is not a RedisListObject">>)
    ELSE LET l == W1.ks[key].value[2]
             revd == int(argv[3]) < 0
             given == IF revd THEN 0 - int(argv[3]) ELSE int(argv[3])
             count == IF given = 0 THEN Len(l) ELSE given
             r == RemoveLoop(IF revd THEN Reversed(l) ELSE l, value, count, 0)
             objlst == IF revd THEN Reversed(r.objlst) ELSE r.objlst
         IN Return(WithKs(W1, Put(W1.ks, key, SetValue(W1.ks[key], PyList(objlst)))),
                   PyInt(r.counter))

ltrim_handler(W, c, argv) ==
    LET key == argv[2]
        g == get_object(W.ks, key, "RedisListObject")
        W1 == WithKs(W, g.ks)
    IN
    IF ~IsInt(argv[3]) \/ ~IsInt(argv[4])
    THEN abort(W, "ERR", <<"value is not an integer or out of range">>)
    ELSE IF g.out = "KeyError" THEN Return(W1, True)
    ELSE IF g.out = "TypeError" THEN WRONGTYPE(W1)
    ELSE IF g.out # "obj" THEN Raise(W1, g.out, <<"is not a RedisListObject">>)
    ELSE LET l == W1.ks[key].value[2]
             start == IF int(argv[3]) < 0 THEN Len(l) + int(argv[3]) ELSE int(argv[3])
             stop == IF int(argv[4]) < 0 THEN Len(l) + int(argv[4]) ELSE int(argv[4])
         IN Return(WithKs(W1, Put(W1.ks, key,
                       SetValue(W1.ks[key], PyList(PySlice(l, start, stop))))),
                   True)

----------------------------------------------------------------------------
(* Key-lifecycle handlers (redis/server_impl/misc_command.py) *)

\* the loop of del_handler over the elements of argv, from index i on
RECURSIVE DelLoop(_, _, _, _)
DelLoop(ks, argv, i, deleted) ==
    IF i > Len(argv) THEN [ks |-> ks, deleted |-> deleted]
    ELSE IF Has(ks, argv[i]) THEN DelLoop(Del(ks, argv[i]), argv, i + 1, deleted + 1)
    ELSE DelLoop(ks, argv, i + 1, deleted)

del_handler(W, c, argv) ==
    LET r == DelLoop(W.ks, argv, 1, 0) IN
    Return(WithKs(W, r.ks), PyInt(r.deleted))

\* pickle.dumps(obj): an opaque byte string that determines the object
dump_handler(W, c, argv) ==
    LET key == argv[2] IN
    IF ~Has(W.ks, key) THEN Return(W, PyNone)
    ELSE Return(W, <<"bytes", <<"pickle", W.ks[key]>> >>)

echo_handler(W, c, argv) == Return(W, PyBytes(argv[2]))

expire_handler(W, c, argv) ==
    LET key == argv[2]
        g == get_object(W.ks, key, "RedisObject")
        W1 == WithKs(W, g.ks)
    IN
    IF ~IsInt(argv[3]) THEN abort(W, "ERR", <<"value is not an integer or out of range">>)
    ELSE IF g.out = "KeyError" THEN Return(W1, PyInt(0))
    ELSE Return(WithKs(W1, Put(W1.ks, key,
                    [W1.ks[key] EXCEPT !.expire_time = <<now + 1000 * int(argv[3])>>])),
                PyInt(1))

persist_handler(W, c, argv) ==
    LET key == argv[2]
        g == get_object(W.ks, key, "RedisObject")
        W1 == WithKs(W, g.ks)
    IN
    IF g.out = "KeyError" THEN Return(W1, PyInt(0))
    ELSE Return(WithKs(W1, Put(W1.ks, key, [W1.ks[key] EXCEPT !.expire_time = None])),
                PyInt(1))

\* RedisDatabase.flush
flush(ks) == EmptyKeySpace

flushdb_handler(W, c, argv) == Return(WithKs(W, flush(W.ks)), True)

\* flushall_handler leaving the databases as they are
flushall_handler_no_flush(W, c, argv) == Return(W, True)

\* RedisServer.dbs holds database 0 alone: get_database, which adds a
\* database, is called by change_db only, and no command calls change_db
flushall_handler(W, c, argv) == Return(WithKs(W, flush(W.ks)), True)

multi_handler(W, c, argv) ==
    IF W.stat[c] = STAT_MULTI
    THEN abort(W, "ERR", <<"MULTI calls can not be nested">>)
    ELSE Return([W EXCEPT !.stat[c] = STAT_MULTI], True)

----------------------------------------------------------------------------
(* The CLIENT command (redis/server/command/client_command.py).  The       *)
(* registry RedisServer.clients is keyed by the address 'ip:port' of the   *)
(* connection; the addresses of the model are the names of NetClients.     *)

\* bytes.decode() of an address
decode(b) ==
    CASE b = b_c1 -> "c1"
      [] b = b_c2 -> "c2"
      [] OTHER -> "c9"

ClientSyntaxError(W) ==
    abort(W, "ERR", <<"Syntax error, try CLIENT (LIST | KILL ip:port | GETNAME | SETNAME connection-name)">>)

\* RedisServer.kill_client: self.clients[ipaddr] raises KeyError for an
\* address that is not registered, else the client's transport is closed
kill_client(W, ipaddr) ==
    IF ipaddr \notin W.clients THEN Raise(W, "KeyError", <<ipaddr>>)
    ELSE Return([W EXCEPT !.transport[ipaddr] = "closed"], PyNone)

client_kill_handler(W, c, argv) ==
    IF Len(argv) # 3 THEN ClientSyntaxError(W)
    ELSE LET r == kill_client(W, decode(argv[3])) IN
         IF r.out = "KeyError" THEN abort(W, "ERR", <<"No such client">>)
         ELSE Return(r.W, True)

\* get_clients_info_str returns a str describing the registered clients
client_list_handler(W, c, argv) ==
    IF Len(argv) # 2 THEN ClientSyntaxError(W)
    ELSE Return(W, <<"str", W.clients>>)

client_getname_handler(W, c, argv) ==
    IF Len(argv) # 2 THEN ClientSyntaxError(W)
    ELSE Return(W, W.name[c])

client_setname_handler(W, c, argv) ==
    IF Len(argv) # 3 THEN ClientSyntaxError(W)
    ELSE Return([W EXCEPT !.name[c] = <<"str", argv[3]>>], True)

client_handler(W, c, argv) ==
    LET op == upper(argv[2]) IN
    IF op = b_KILL THEN client_kill_handler(W, c, argv)
    ELSE IF op = b_LIST THEN client_list_handler(W, c, argv)
    ELSE IF op = b_GETNAME THEN client_getname_handler(W, c, argv)
    ELSE IF op = b_SETNAME THEN client_setname_handler(W, c, argv)
    ELSE ClientSyntaxError(W)

----------------------------------------------------------------------------
(* The command registry and dispatch (redis/server/server.py) *)

\* the names registered by @server.command, with their nargs rule:
\* <<"int", n>> for an exact count, <<"ge", n>> for nargs_greater_equal(n)
nargs(cmd) ==
    CASE cmd = lower(b_GET) -> <<"int", 1>>
      [] cmd = lower(b_SET) -> <<"ge", 2>>
      [] cmd = lower(b_SETNX) -> <<"int", 2>>
      [] cmd = lower(b_SETEX) -> <<"int", 3>>
      [] cmd = lower(b_STRLEN) -> <<"int", 1>>
      [] cmd = lower(b_APPEND) -> <<"int", 2>>
      [] cmd = lower(b_INCR) -> <<"int", 1>>
      [] cmd = lower(b_DECR) -> <<"int", 1>>
      [] cmd = lower(b_INCRBY) -> <<"int", 2>>
      [] cmd = lower(b_INCRBYFLOAT) -> <<"int", 2>>
      [] cmd = lower(b_DECRBY) -> <<"int", 2>>
      [] cmd = lower(b_SETBIT) -> <<"int", 3>>
      [] cmd = lower(b_BITOP) -> <<"ge", 3>>
      [] cmd = lower(b_BITPOS) -> <<"ge", 2>>
      [] cmd = lower(b_GETBIT) -> <<"int", 2>>
      [] cmd = lower(b_QUIT) -> <<"int", 0>>
      [] cmd = lower(b_LPUSH) -> <<"ge", 2>>
      [] cmd = lower(b_LPUSHX) -> <<"int", 2>>
      [] cmd = lower(b_LLEN) -> <<"int", 1>>
      [] cmd = lower(b_LPOP) -> <<"int", 1>>
      [] cmd = lower(b_LRANGE) -> <<"int", 3>>
      [] cmd = lower(b_LSET) -> <<"int", 3>>
      [] cmd = lower(b_LINSERT) -> <<"int", 4>>
      [] cmd = lower(b_LREM) -> <<"int", 3>>
      [] cmd = lower(b_LTRIM) -> <<"int", 3>>
      [] cmd = lower(b_GETSET) -> <<"int", 2>>
      [] cmd = lower(b_SETRANGE) -> <<"int", 3>>
      [] cmd = lower(b_DEL) -> <<"ge", 1>>
      [] cmd = lower(b_DUMP) -> <<"int", 1>>
      [] cmd = lower(b_ECHO) -> <<"int", 1>>
      [] cmd = lower(b_EXPIRE) -> <<"int", 2>>
      [] cmd = lower(b_PERSIST) -> <<"int", 1>>
      [] cmd = lower(b_FLUSHDB) -> <<"int", 0>>
      [] cmd = lower(b_FLUSHALL) -> <<"int", 0>>
      [] cmd = lower(b_MULTI) -> <<"int", 0>>
      [] cmd = lower(b_EXEC) -> <<"int", 0>>
      [] cmd = lower(b_CLIENT) -> <<"ge", 1>>
      [] OTHER -> <<"unregistered", 0>>

handlers == {lower(n) : n \in {b_GET, b_SET, b_SETNX, b_SETEX, b_STRLEN, b_APPEND, b_INCR, b_DECR,
                               b_INCRBY, b_DECRBY, b_INCRBYFLOAT, b_SETBIT, b_GETBIT,
                               b_BITOP, b_GETSET, b_SETRANGE, b_LRANGE, b_LSET, b_LINSERT,
                               b_LREM, b_LTRIM, b_BITPOS,
                               b_QUIT, b_LPUSH, b_LPUSHX, b_LLEN, b_LPOP, b_DEL, b_DUMP,
                               b_ECHO, b_EXPIRE, b_PERSIST, b_FLUSHDB, b_FLUSHALL, b_MULTI, b_EXEC,
                               b_CLIENT}}

\* the nargs test of __wrapper on len(argv) - 1
ArityOK(cmd, n) ==
    IF nargs(cmd)[1] = "int" THEN n = nargs(cmd)[2] ELSE n >= nargs(cmd)[2]

\* the conversion of a handler's return value by __wrapper
ConvertReturn(W, ret) ==
    IF IsSerializationObject(ret) THEN Return(W, ret)
    ELSE IF ret = True THEN Return(W, RedisSimpleStringSerializationObject("OK"))
    ELSE IF ret[1] = "int" THEN Return(W, <<"Integer">> \o Tail(ret))
    ELSE IF ret[1] = "list" THEN
        IF \A i \in 1..Len(ret[2]) : IsSerializationObject(ret[2][i]) \/ ret[2][i] = PyNone
        THEN Return(W, RedisListSerializationObject(
                 [i \in 1..Len(ret[2]) |->
                     IF ret[2][i] = PyNone THEN RedisBulkStringSerializationObject(None)
                     ELSE ret[2][i]]))
        ELSE Raise(W, "ValueError", <<"Value should be a RedisObject or RedisSerializationObject">>)
    ELSE IF ret = PyNone THEN Return(W, RedisBulkStringSerializationObject(None))
    ELSE Raise(W, "ValueError", <<"Invalid reply">>)

RECURSIVE exec_command(_, _, _)

\* the loop of exec_handler taking the queued commands from the tail
RECURSIVE ExecLoop_from_tail(_, _, _, _)
ExecLoop_from_tail(W, c, cmds, ret) ==
    IF Len(cmds) = 0 THEN Return(W, ret)
    ELSE LET r == exec_command(W, cmds[Len(cmds)], c) IN
         IF r.out # "return" THEN r
         ELSE ExecLoop_from_tail(r.W, c, SubSeq(cmds, 1, Len(cmds) - 1), Append(ret, r.val))

\* the loop of exec_handler over the queued commands; ret collects the replies
RECURSIVE ExecLoop(_, _, _, _)
ExecLoop(W, c, cmds, ret) ==
    IF Len(cmds) = 0 THEN Return(W, ret)
    ELSE LET r == exec_command(W, Head(cmds), c) IN
         IF r.out # "return" THEN r
         ELSE ExecLoop(r.W, c, Tail(cmds), Append(ret, r.val))

\* exec_handler without the test of the client's mode
exec_handler_unchecked(W, c, argv) ==
    LET r == ExecLoop(W, c, W.mcl[c], <<>>) IN
    IF r.out # "return" THEN r
    ELSE Return([r.W EXCEPT !.mcl[c] = <<>>, !.stat[c] = STAT_NORMAL], PyList(r.val))

exec_handler(W, c, argv) ==
    IF W.stat[c] # STAT_MULTI
    THEN abort(W, "ERR", <<"EXEC without MULTI">>)
    ELSE LET r == ExecLoop(W, c, W.mcl[c], <<>>) IN
         IF r.out # "return" THEN r
         ELSE Return([r.W EXCEPT !.mcl[c] = <<>>, !.stat[c] = STAT_NORMAL], PyList(r.val))

\* the function registered under cmd
func(cmd, W, c, argv) ==
    CASE cmd = lower(b_GET) -> get_handler(W, c, argv)
      [] cmd = lower(b_SET) -> set_handler(W, c, argv)
      [] cmd = lower(b_SETNX) -> setnx_handler(W, c, argv)
      [] cmd = lower(b_SETEX) -> setex_handler(W, c, argv)
      [] cmd = lower(b_STRLEN) -> strlen_handler(W, c, argv)
      [] cmd = lower(b_APPEND) -> append_handler(W, c, argv)
      [] cmd = lower(b_INCR) -> incr_handler(W, c, argv)
      [] cmd = lower(b_DECR) -> decr_handler(W, c, argv)
      [] cmd = lower(b_INCRBY) -> incrby_handler(W, c, argv)
      [] cmd = lower(b_INCRBYFLOAT) -> incrbyfloat_handler(W, c, argv)
      [] cmd = lower(b_DECRBY) -> decrby_handler(W, c, argv)
      [] cmd = lower(b_SETBIT) -> setbit_handler(W, c, argv)
      [] cmd = lower(b_BITOP) -> bitop_handler(W, c, argv)
      [] cmd = lower(b_BITPOS) -> bitpos_handler(W, c, argv)
      [] cmd = lower(b_GETBIT) -> getbit_handler(W, c, argv)
      [] cmd = lower(b_QUIT) -> quit_handler(W, c, argv)
      [] cmd = lower(b_LPUSH) -> lpush_handler(W, c, argv)
      [] cmd = lower(b_LPUSHX) -> lpushx_handler(W, c, argv)
      [] cmd = lower(b_LLEN) -> llen_handler(W, c, argv)
      [] cmd = lower(b_LPOP) -> lpop_handler(W, c, argv)
      [] cmd = lower(b_LRANGE) -> lrange_handler(W, c, argv)
      [] cmd = lower(b_LSET) -> lset_handler(W, c, argv)
      [] cmd = lower(b_LINSERT) -> linsert(W, c, argv)
      [] cmd = lower(b_LREM) -> lrem_handler(W, c, argv)
      [] cmd = lower(b_LTRIM) -> ltrim_handler(W, c, argv)
      [] cmd = lower(b_GETSET) -> getset_handler(W, c, argv)
      [] cmd = lower(b_SETRANGE) -> setrange_handler(W, c, argv)
      [] cmd = lower(b_DEL) -> del_handler(W, c, argv)
      [] cmd = lower(b_DUMP) -> dump_handler(W, c, argv)
      [] cmd = lower(b_ECHO) -> echo_handler(W, c, argv)
      [] cmd = lower(b_EXPIRE) -> expire_handler(W, c, argv)
      [] cmd = lower(b_PERSIST) -> persist_handler(W, c, argv)
      [] cmd = lower(b_FLUSHDB) -> flushdb_handler(W, c, argv)
      [] cmd = lower(b_FLUSHALL) -> flushall_handler(W, c, argv)
      [] cmd = lower(b_MULTI) -> multi_handler(W, c, argv)
      [] cmd = lower(b_EXEC) -> exec_handler(W, c, argv)
      [] cmd = lower(b_CLIENT) -> client_handler(W, c, argv)

\* RedisServerMixin.command.__wrapper: the arity test is outside the try block,
\* CommandNotFoundError and CommandError raised by the function become error replies
wrapper(cmd, W, c, argv) ==
    IF ~ArityOK(cmd, Len(argv) - 1)
    THEN abort(W, "ERR", <<"wrong number of arguments for '%s' command", cmd>>)
    ELSE LET r == func(cmd, [W EXCEPT !.ran = Append(@, <<c, argv>>)], c, argv) IN
         IF r.out = "return" THEN ConvertReturn(r.W, r.val)
         ELSE IF r.out = "CommandNotFoundError"
              THEN Return(r.W, RedisErrorStringSerializationObject("ERR", r.val))
         ELSE IF r.out = "CommandError"
              THEN Return(r.W, RedisErrorStringSerializationObject(r.val[1], r.val[2]))
         ELSE r

\* RedisServerMixin.exec_command (RedisClientBase.exec_command delegates to it)
exec_command(W, argv, c) ==
    LET cmd == lower(argv[1]) IN
    IF cmd \notin handlers
    THEN Raise(W, "CommandNotFoundError", <<"unknown command '%s'", cmd>>)
    ELSE wrapper(cmd, W, c, argv)

----------------------------------------------------------------------------
(* The RESP codec (redis/common/proto.py).  In this section the characters *)
(* of a simple string and of an error are byte sequences (a str is held as *)
(* its ASCII bytes); the value of a bulk string is None or <<"bytes", b>>. *)

CRLF == <<13, 10>>

startswith(b, byte) == Len(b) > 0 /\ b[1] = byte
endswith(b, suffix) ==
    Len(b) >= Len(suffix) /\ SubSeq(b, Len(b) - Len(suffix) + 1, Len(b)) = suffix

Min(S) == CHOOSE x \in S : \A y \in S : x <= y

\* to_resp of the five serialization classes
RECURSIVE to_resp(_)
to_resp(obj) ==
    CASE obj[1] = "SimpleString" -> <<43>> \o obj[2] \o CRLF
      [] obj[1] = "ErrorString" -> <<45>> \o obj[2] \o <<32>> \o obj[3] \o CRLF
      [] obj[1] = "Integer" -> <<58>> \o IntToBytes(<<"int">> \o Tail(obj)) \o CRLF
      [] obj[1] = "BulkString" ->
            IF obj[2] = None THEN <<36, 45, 49>> \o CRLF
            ELSE <<36>> \o str(Len(obj[2][2])) \o CRLF \o obj[2][2] \o CRLF
      [] obj[1] = "List" ->
            LET parts[i \in 0..Len(obj[2])] ==
                    IF i = 0 THEN <<42>> \o str(Len(obj[2])) \o CRLF
                    ELSE parts[i - 1] \o to_resp(obj[2][i])
            IN parts[Len(obj[2])]

resp_dumps(respobj) ==
    IF IsSerializationObject(respobj) THEN to_resp(respobj)
    ELSE IF respobj[1] = "bytes" THEN to_resp(RedisBulkStringSerializationObject(respobj))
    ELSE IF respobj[1] = "list" THEN to_resp(RedisListSerializationObject(respobj[2]))
    ELSE IF respobj = PyNone THEN to_resp(RedisBulkStringSerializationObject(None))
    ELSE IF respobj = True THEN to_resp(RedisSimpleStringSerializationObject(<<79, 75>>))
    ELSE to_resp(RedisIntegerSerializationObject(respobj[2]))

\* io.BytesIO over data, pos the index of the next byte: readline() and read(n)
sio_readline(data, pos) ==
    LET ends == {i \in pos..Len(data) : data[i] = 10}
        last_ == IF ends = {} THEN Len(data) ELSE Min(ends)
    IN [val |-> SubSeq(data, pos, last_), pos |-> last_ + 1]

sio_read(data, pos, n) ==
    LET last_ == IF n < 0 \/ pos + n - 1 > Len(data) THEN Len(data) ELSE pos + n - 1
    IN [val |-> SubSeq(data, pos, last_), pos |-> last_ + 1]

\* bytes.split(b' ')
RECURSIVE split(_, _)
split(b, sep) ==
    LET at == {i \in 1..Len(b) : b[i] = sep} IN
    IF at = {} THEN <<b>>
    ELSE <<SubSeq(b, 1, Min(at) - 1)>> \o split(SubSeq(b, Min(at) + 1, Len(b)), sep)

Loaded(val, pos) == [out |-> "return", val |-> val, pos |-> pos]
LoadError(pos) == [out |-> "ValueError", val |-> <<>>, pos |-> pos]

RECURSIVE resp_loads_item(_, _, _)
RECURSIVE resp_loads_list(_, _, _, _)

\* the while loop of __resp_loads for a list of the announced length
resp_loads_list(length, data, pos, obj_list) ==
    IF length = 0 THEN Loaded(RedisListSerializationObject(obj_list), pos)
    ELSE LET l == sio_readline(data, pos) IN
         IF l.val = <<>> THEN LoadError(l.pos)
         ELSE LET r == resp_loads_item(l.val, data, l.pos) IN
              IF r.out # "return" THEN r
              ELSE resp_loads_list(length - 1, data, r.pos, Append(obj_list, r.val))

\* __resp_loads(begin_part, buf)
resp_loads_item(begin_part, data, pos) ==
    LET body == SubSeq(begin_part, 2, Len(begin_part) - 2) IN
    IF startswith(begin_part, 43)
    THEN Loaded(RedisSimpleStringSerializationObject(body), pos)
    ELSE IF startswith(begin_part, 45)
    THEN LET sps == split(begin_part, 32) IN
         IF Len(sps) # 2 THEN LoadError(pos)
         ELSE Loaded(RedisErrorStringSerializationObject(sps[1], sps[2]), pos)
    ELSE IF startswith(begin_part, 42)
    THEN IF ~IsInt(body) THEN LoadError(pos)
         ELSE resp_loads_list(int(body), data, pos, <<>>)
    ELSE IF startswith(begin_part, 36)
    THEN IF ~IsInt(body) THEN LoadError(pos)
         ELSE LET strvalue == sio_read(data, pos, int(body))
                  lineend == sio_readline(data, strvalue.pos)
              IN IF Len(strvalue.val) # int(body) \/ Len(lineend.val) # 2
                 THEN LoadError(lineend.pos)
                 ELSE Loaded(RedisBulkStringSerializationObject(PyBytes(strvalue.val)),
                             lineend.pos)
    ELSE LoadError(pos)

\* the loop of resp_loads over the lines of the input
RECURSIVE resp_loads_all(_, _, _)
resp_loads_all(data, pos, loaded_objs) ==
    LET l == sio_readline(data, pos) IN
    IF l.val = <<>> THEN Loaded(loaded_objs, l.pos)
    ELSE LET r == resp_loads_item(l.val, data, l.pos) IN
         IF r.out # "return" THEN r
         ELSE resp_loads_all(data, r.pos, Append(loaded_objs, r.val))

\* resp_loads: the object when one was loaded, else the Python list of them
resp_loads(raw_respstr) ==
    IF ~endswith(raw_respstr, CRLF) THEN LoadError(1)
    ELSE LET r == resp_loads_all(raw_respstr, 1, <<>>) IN
         IF r.out # "return" THEN r
         ELSE IF Len(r.val) = 1 THEN Loaded(r.val[1], r.pos)
         ELSE Loaded(PyList(r.val), r.pos)

----------------------------------------------------------------------------
(* The inline request form (InlineProtocolParser, redis/common/proto.py).   *)
(* A str is the sequence of its code points.                                *)

\* bytes.rstrip(chars)
RECURSIVE rstrip(_, _)
rstrip(b, chars) ==
    IF b # <<>> /\ b[Len(b)] \in chars THEN rstrip(SubSeq(b, 1, Len(b) - 1), chars)
    ELSE b

IsHex(ch) == ch \in (48..57) \cup (65..70) \cup (97..102)
HexVal(ch) == IF ch <= 57 THEN ch - 48 ELSE IF ch <= 70 THEN ch - 55 ELSE ch - 87

RECURSIVE HexNum(_)
HexNum(s) ==
    IF s = <<>> THEN 0 ELSE 16 * HexNum(SubSeq(s, 1, Len(s) - 1)) + HexVal(s[Len(s)])

RECURSIVE OctNum(_)
OctNum(s) ==
    IF s = <<>> THEN 0 ELSE 8 * OctNum(SubSeq(s, 1, Len(s) - 1)) + (s[Len(s)] - 48)

\* the number of octal digits of an octal escape starting at b[i], at most 3
OctLen(b, i) ==
    IF i + 1 <= Len(b) /\ b[i + 1] \in 48..55
    THEN (IF i + 2 <= Len(b) /\ b[i + 2] \in 48..55 THEN 3 ELSE 2)
    ELSE 1

Parsed(val) == [out |-> "return", val |-> val]
ParseRaise(exc) == [out |-> exc, val |-> <<>>]
ProtocolError(message) == [out |-> "ProtocolError", val |-> <<message>>]

\* bytes.decode('unicode_escape'): a byte that is not a backslash is the
\* code point of the same number; \N{name} of a known character name (not
\* modelled) is that character
RECURSIVE unicode_escape(_, _, _)
unicode_escape(b, i, acc) ==
    IF i > Len(b) THEN Parsed(acc)
    ELSE IF b[i] # 92 THEN unicode_escape(b, i + 1, Append(acc, b[i]))
    ELSE IF i = Len(b) THEN ParseRaise("UnicodeDecodeError")
    ELSE LET e == b[i + 1] IN
         CASE e = 10 -> unicode_escape(b, i + 2, acc)
           [] e \in {92, 39, 34} -> unicode_escape(b, i + 2, Append(acc, e))
           [] e = 97 -> unicode_escape(b, i + 2, Append(acc, 7))
           [] e = 98 -> unicode_escape(b, i + 2, Append(acc, 8))
           [] e = 102 -> unicode_escape(b, i + 2, Append(acc, 12))
           [] e = 110 -> unicode_escape(b, i + 2, Append(acc, 10))
           [] e = 114 -> unicode_escape(b, i + 2, Append(acc, 13))
           [] e = 116 -> unicode_escape(b, i + 2, Append(acc, 9))
           [] e = 118 -> unicode_escape(b, i + 2, Append(acc, 11))
           [] e \in 48..55 ->
                 LET n == OctLen(b, i + 1) IN
                 unicode_escape(b, i + 1 + n,
                                Append(acc, OctNum(SubSeq(b, i + 1, i + n))))
           [] e \in {120, 117, 85} ->
                 LET n == IF e = 120 THEN 2 ELSE IF e = 117 THEN 4 ELSE 8
                     digits == SubSeq(b, i + 2, i + 1 + n)
                 IN IF i + 1 + n > Len(b) \/ \E j \in 1..n : ~IsHex(digits[j])
                    THEN ParseRaise("UnicodeDecodeError")
                    ELSE IF HexNum(digits) > 1114111
                    THEN ParseRaise("UnicodeDecodeError")
                    ELSE unicode_escape(b, i + 2 + n, Append(acc, HexNum(digits)))
           [] e = 78 -> ParseRaise("UnicodeDecodeError")
           [] OTHER -> unicode_escape(b, i + 2, acc \o <<92, e>>)

\* the UTF-8 bytes of one code point
utf8(cp) ==
    IF cp < 128 THEN <<cp>>
    ELSE IF cp < 2048 THEN <<192 + (cp \div 64), 128 + (cp % 64)>>
    ELSE IF cp < 65536
    THEN <<224 + (cp \div 4096), 128 + ((cp \div 64) % 64), 128 + (cp % 64)>>
    ELSE <<240 + (cp \div 262144), 128 + ((cp \div 4096) % 64),
           128 + ((cp \div 64) % 64), 128 + (cp % 64)>>

\* str.encode(): UTF-8; a surrogate raises UnicodeEncodeError
CanEncode(s) == \A i \in 1..Len(s) : s[i] \notin 55296..57343

RECURSIVE encode(_)
encode(s) == IF s = <<>> THEN <<>> ELSE utf8(s[1]) \o encode(SubSeq(s, 2, Len(s)))

\* the for loop of parse_line and what follows it; quote_ is 0 for None
RECURSIVE parse_chars(_, _, _, _, _)
parse_chars(line, i, quote_, argv, tmp) ==
    IF i > Len(line)
    THEN (IF Len(tmp) # 0 /\ ~CanEncode(tmp) THEN ParseRaise("UnicodeEncodeError")
          ELSE IF quote_ # 0 THEN ProtocolError("unbalanced quotes in request")
          ELSE Parsed(IF Len(tmp) # 0 THEN Append(argv, encode(tmp)) ELSE argv))
    ELSE LET ch == line[i] IN
         IF (ch = 32 \/ ch = 9) /\ quote_ = 0
         THEN (IF Len(tmp) # 0
               THEN (IF ~CanEncode(tmp) THEN ParseRaise("UnicodeEncodeError")
                     ELSE parse_chars(line, i + 1, quote_, Append(argv, encode(tmp)), <<>>))
               ELSE parse_chars(line, i + 1, quote_, argv, tmp))
         ELSE IF ch = 34 \/ ch = 39
         THEN (IF quote_ # 0 /\ quote_ = ch
               THEN (IF ~CanEncode(tmp) THEN ParseRaise("UnicodeEncodeError")
                     ELSE parse_chars(line, i + 1, 0, Append(argv, encode(tmp)), <<>>))
               ELSE IF quote_ = 0 THEN parse_chars(line, i + 1, ch, argv, tmp)
               ELSE parse_chars(line, i + 1, quote_, argv, Append(tmp, ch)))
         ELSE parse_chars(line, i + 1, quote_, argv, Append(tmp, ch))

\* InlineProtocolParser.parse_line
parse_line(raw_line) ==
    LET line == unicode_escape(rstrip(rstrip(raw_line, {13, 10}), {32}), 1, <<>>) IN
    IF line.out # "return" THEN line
    ELSE parse_chars(line.val, 1, 0, <<>>, <<>>)

----------------------------------------------------------------------------
(* Requests on a connection (RedisProtocol, BulkProtocolParser).  data is   *)
(* what the peer sends for one request, followed by end of stream when the  *)
(* request needs more: StreamReader.readline() and read(n) then return what *)
(* is left, as the two BytesIO operators do.                                *)

stream_readline(data, pos) == sio_readline(data, pos)
stream_read(data, pos, n) == sio_read(data, pos, n)

Whitespace == {9, 10, 11, 12, 13, 32}

RECURSIVE lstrip(_, _)
lstrip(b, chars) ==
    IF b # <<>> /\ b[1] \in chars THEN lstrip(Tail(b), chars) ELSE b

\* int(b) of a bytes object accepts surrounding whitespace
CanInt(b) == IsInt(lstrip(rstrip(b, Whitespace), Whitespace))
ToInt(b) == int(lstrip(rstrip(b, Whitespace), Whitespace))

\* the for loop of BulkProtocolParser.get_argvalue; 'length' in the test
\* after read() is a name bound nowhere
RECURSIVE get_argvalue_loop(_, _, _, _)
get_argvalue_loop(array_length, data, pos, argv) ==
    IF array_length <= 0 THEN Parsed(argv)
    ELSE LET arg_length_str == stream_readline(data, pos) IN
         IF ~startswith(arg_length_str.val, 36)
         THEN (IF arg_length_str.val = <<>> THEN ParseRaise("IndexError")
               ELSE ProtocolError(<<"expected '$', got '\\x%x'", arg_length_str.val[1]>>))
         ELSE IF ~CanInt(Tail(arg_length_str.val)) THEN ProtocolError("Invalid length")
         ELSE ParseRaise("NameError")

\* BulkProtocolParser.get_argvalue(beginline, stream_reader)
get_argvalue(beginline, data, pos) ==
    LET line == rstrip(beginline, {13, 10}) IN
    IF ~CanInt(Tail(line)) THEN ParseRaise("ValueError")
    ELSE get_argvalue_loop(ToInt(Tail(line)), data, pos, <<>>)

\* RedisProtocol.get_command; out is "eof" when it returns None
get_command(data) ==
    LET line == stream_readline(data, 1) IN
    IF line.val = <<>> THEN [out |-> "eof", val |-> <<>>]
    ELSE IF startswith(line.val, 42) THEN get_argvalue(line.val, data, line.pos)
    ELSE parse_line(line.val)

----------------------------------------------------------------------------
(* Clients.  NetClients are connections served by RedisClient.run; the     *)
(* test client is the RedisTestClient of server.get_test_client().         *)

NetClients == {"c1", "c2"}
TestClient == "t"
ClientIds == NetClients \cup {TestClient}

\* the outcome of serving one request: the new world, the reply written
\* (<<>> when none was), the exception that escaped ("none" when none did),
\* and how the request was treated
Served(W, reply, exc, how) == [W |-> W, reply |-> reply, exc |-> exc, how |-> how]

Dispatched(r) ==
    IF r.out = "return" THEN Served(r.W, r.val, "none", "dispatched")
    ELSE Served(r.W, <<>>, r.out, "dispatched")

\* RedisClient.close is a generator function and run() calls it without
\* iterating it: its body (drain, then stream_writer.close()) never runs
close(W, c) == W

\* the loop body without the continue after queuing: the command is queued
\* and dispatched as well
run_queue_and_dispatch(W, c, argv) ==
    IF Len(argv) = 0 THEN Served(W, <<>>, "none", "empty")
    ELSE IF upper(argv[1]) = b_QUIT
    THEN Served(W, RedisSimpleStringSerializationObject("OK"), "none", "quit")
    ELSE IF W.stat[c] = STAT_MULTI /\ upper(argv[1]) # b_EXEC
    THEN Dispatched(exec_command([W EXCEPT !.mcl[c] = Append(@, argv)], argv, c))
    ELSE Dispatched(exec_command(W, argv, c))

\* the body of the loop of RedisClient.run once a request argv has been read
run(W, c, argv) ==
    IF Len(argv) = 0 THEN Served(W, <<>>, "none", "empty")
    ELSE IF upper(argv[1]) = b_QUIT
    THEN Served(close(W, c), RedisSimpleStringSerializationObject("OK"), "none", "quit")
    ELSE IF W.stat[c] = STAT_MULTI /\ upper(argv[1]) # b_EXEC
    THEN Served([W EXCEPT !.mcl[c] = Append(@, argv)],
                RedisSimpleStringSerializationObject("QUEUED"), "none", "queued")
    ELSE Dispatched(exec_command(W, argv, c))

\* execute with stat kept by the class: the mode of one client is the mode
\* of all
execute_shared_stat(W, c, argv) ==
    IF (\E d \in ClientIds : W.stat[d] = STAT_MULTI) /\ upper(argv[1]) # b_EXEC
    THEN Served([W EXCEPT !.mcl[c] = Append(@, argv)],
                RedisSimpleStringSerializationObject("QUEUED"), "none", "queued")
    ELSE Dispatched(exec_command(W, argv, c))

\* RedisTestClient.execute once command_str has been parsed into argv
execute(W, c, argv) ==
    IF W.stat[c] = STAT_MULTI /\ upper(argv[1]) # b_EXEC
    THEN Served([W EXCEPT !.mcl[c] = Append(@, argv)],
                RedisSimpleStringSerializationObject("QUEUED"), "none", "queued")
    ELSE Dispatched(exec_command(W, argv, c))

\* the argv RedisTestClient.execute takes from command_str: the array form
\* goes through resp_loads and 'for item in lst', and
\* RedisListSerializationObject defines no __iter__; the inline form goes
\* through parse_line
command_argv(command_str) ==
    IF startswith(command_str, 42)
    THEN LET lst == resp_loads(command_str) IN
         IF lst.out # "return" THEN ParseRaise(lst.out)
         ELSE IF lst.val[1] # "List" THEN ParseRaise("ValueError")
         ELSE ParseRaise("TypeError")
    ELSE parse_line(command_str)

\* RedisTestClient.execute(command_str); argv[0] of an empty argv raises
execute_str(W, c, command_str) ==
    CHOOSE r \in {IF argv.out # "return" THEN Served(W, <<>>, argv.out, "unparsed")
                  ELSE IF Len(argv.val) = 0 THEN Served(W, <<>>, "IndexError", "unparsed")
                  ELSE execute(W, c, argv.val) :
                  argv \in {command_argv(command_str)}} : TRUE

\* one iteration of the loop of RedisClient.run on the bytes of a request
run_raw(W, c, data) ==
    LET argv == get_command(data) IN
    IF argv.out = "ProtocolError"
    THEN Served(close(W, c),
                RedisErrorStringSerializationObject(
                    "ERR", <<"Protocol error: %s", argv.val[1]>>),
                "none", "protocol_error")
    ELSE IF argv.out = "eof" THEN Served(W, <<>>, "none", "eof")
    ELSE IF argv.out # "return" THEN Served(W, <<>>, argv.out, "unparsed")
    ELSE run(W, c, argv.val)

----------------------------------------------------------------------------
(* The state machine *)

World == [ks |-> key_space, stat |-> stat, mcl |-> multi_command_list, ran |-> <<>>,
          clients |-> clients, transport |-> transport, name |-> name]

\* the keys whose entry is present and past its expiry
Stale(ks) == {k \in DOMAIN ks : expired(ks[k])}

NoRequest == [c |-> "none", argv |-> <<>>, how |-> "none", reply |-> <<>>,
              exc |-> "none", ran |-> <<>>, stale |-> {}]

\* the record of a served request; stale is taken when the request is read
LastOf(c, argv, r) ==
    [c |-> c, argv |-> argv, how |-> r.how, reply |-> r.reply, exc |-> r.exc,
     ran |-> r.W.ran, stale |-> Stale(key_space)]

\* the bounds on the values the model builds
Bounded(W) ==
    /\ \A c \in ClientIds : Len(W.mcl[c]) <= MaxQueue
    /\ \A k \in DOMAIN W.ks :
          /\ W.ks[k].value[1] = "bytes" =>
                \/ Len(W.ks[k].value[2]) <= MaxStrLen
                \/ IsInt(W.ks[k].value[2]) /\ Len(W.ks[k].value[2]) <= MaxDigits + 1
          /\ (W.ks[k].value[1] = "int" /\ Len(W.ks[k].value) = 2) =>
                W.ks[k].value[2] <= MaxIntAbs /\ W.ks[k].value[2] >= 0 - MaxIntAbs
          /\ W.ks[k].value[1] = "list" => Len(W.ks[k].value[2]) <= MaxStrLen
          /\ W.ks[k].value[1] = "Decimal" =>
                W.ks[k].value[2] <= MaxDecimal /\ W.ks[k].value[2] >= 0 - MaxDecimal

\* the server and the test client after construction, no connection yet
InitServer ==
    /\ key_space = EmptyKeySpace
    /\ now = 0
    /\ clients = {}
    /\ loop = [c \in NetClients |-> "idle"]
    /\ stat = [c \in ClientIds |-> STAT_NORMAL]
    /\ multi_command_list = [c \in ClientIds |-> <<>>]
    /\ last = NoRequest
    /\ nreq = 0
    /\ transport = [c \in NetClients |-> "none"]
    /\ name = [c \in ClientIds |-> PyNone]

NoCodec == [respobj |-> <<>>, raw |-> <<>>, loaded |-> <<>>]

Init == InitServer /\ codec = NoCodec

\* RedisServer.client_connected_cb up to the start of client.run()
Connect(c) ==
    /\ loop[c] = "idle"
    /\ loop' = [loop EXCEPT ![c] = "running"]
    /\ clients' = clients \cup {c}
    /\ transport' = [transport EXCEPT ![c] = "open"]
    /\ UNCHANGED <<key_space, now, stat, multi_command_list, last, nreq, name, codec>>

\* one iteration of RedisClient.run: a request is read and served; when the
\* loop ends with break, client_connected_cb removes the client; an exception
\* that escapes run() ends the task before that
ClientRun(c, argv) ==
    /\ loop[c] = "running"
    /\ nreq < MaxReq
    /\ \E r \in {run(World, c, argv)} :
       /\ Bounded(r.W)
       /\ key_space' = r.W.ks
       /\ stat' = r.W.stat
       /\ multi_command_list' = r.W.mcl
       /\ loop' = [loop EXCEPT ![c] = IF r.exc # "none" THEN "failed"
                                      ELSE IF r.how = "quit" THEN "ended"
                                      ELSE "running"]
       /\ clients' = IF r.how = "quit" /\ r.exc = "none" THEN clients \ {c} ELSE clients
       /\ transport' = r.W.transport
       /\ name' = r.W.name
       /\ last' = LastOf(c, argv, r)
    /\ nreq' = nreq + 1
    /\ UNCHANGED <<now, codec>>

\* one iteration of RedisClient.run on the bytes the peer sent; codec.raw
\* keeps the bytes given
ClientRunRaw(c, data, budget) ==
    /\ loop[c] = "running"
    /\ transport[c] = "open"
    /\ nreq < budget
    /\ \E r \in {run_raw(World, c, data)} :
       /\ Bounded(r.W)
       /\ key_space' = r.W.ks
       /\ stat' = r.W.stat
       /\ multi_command_list' = r.W.mcl
       /\ loop' = [loop EXCEPT ![c] = IF r.exc # "none" THEN "failed"
                                      ELSE IF r.how \in {"quit", "protocol_error", "eof"}
                                      THEN "ended"
                                      ELSE "running"]
       /\ clients' = IF r.how \in {"quit", "protocol_error", "eof"} /\ r.exc = "none"
                     THEN clients \ {c} ELSE clients
       /\ transport' = r.W.transport
       /\ name' = r.W.name
       /\ last' = LastOf(c, IF get_command(data).out = "return" THEN get_command(data).val
                            ELSE <<>>, r)
    /\ nreq' = nreq + 1
    /\ codec' = [NoCodec EXCEPT !.raw = <<data>>]
    /\ UNCHANGED now

\* the peer closes the connection: get_command returns None at end of
\* stream and the loop ends
ClientEof(c) ==
    /\ loop[c] = "running"
    /\ transport[c] = "open"
    /\ loop' = [loop EXCEPT ![c] = "ended"]
    /\ clients' = clients \ {c}
    /\ UNCHANGED <<key_space, now, stat, multi_command_list, last, nreq, transport, name, codec>>

\* the transport was closed by kill_client: the reader is fed end of stream,
\* get_command returns None and the loop ends
ClientClosed(c) ==
    /\ loop[c] = "running"
    /\ transport[c] = "closed"
    /\ loop' = [loop EXCEPT ![c] = "ended"]
    /\ clients' = clients \ {c}
    /\ UNCHANGED <<key_space, now, stat, multi_command_list, last, nreq, transport, name, codec>>

\* RedisTestClient.execute; an exception goes to the caller
TestExecute(argv, budget) ==
    /\ nreq < budget
    /\ \E r \in {execute(World, TestClient, argv)} :
       /\ Bounded(r.W)
       /\ key_space' = r.W.ks
       /\ stat' = r.W.stat
       /\ multi_command_list' = r.W.mcl
       /\ transport' = r.W.transport
       /\ name' = r.W.name
       /\ last' = LastOf(TestClient, argv, r)
    /\ nreq' = nreq + 1
    /\ UNCHANGED <<now, clients, loop, codec>>

\* RedisTestClient.execute(command_str) on the bytes of a request; codec.raw
\* keeps the bytes given
TestExecuteStr(command_str, budget) ==
    /\ nreq < budget
    /\ \E r \in {execute_str(World, TestClient, command_str)} :
       /\ Bounded(r.W)
       /\ key_space' = r.W.ks
       /\ stat' = r.W.stat
       /\ multi_command_list' = r.W.mcl
       /\ transport' = r.W.transport
       /\ name' = r.W.name
       /\ last' = LastOf(TestClient, command_argv(command_str).val, r)
    /\ nreq' = nreq + 1
    /\ codec' = [NoCodec EXCEPT !.raw = <<command_str>>]
    /\ UNCHANGED <<now, clients, loop>>

\* the wall clock advances
Tick ==
    /\ now < MaxTime
    /\ now' = now + TickMs
    /\ UNCHANGED <<key_space, clients, loop, stat, multi_command_list, last, nreq,
                   transport, name, codec>>

----------------------------------------------------------------------------
(* Spec: connections.  Two connections and the test client send requests.  *)

Requests ==
    {<<b_SET, b_k, b_a>>, <<b_GET, b_k>>, <<b_INCR, b_k>>,
     <<b_MULTI>>, <<b_EXEC>>, <<b_exec>>, <<b_FOO>>, <<b_GET>>, <<b_QUIT>>}

Next ==
    \/ \E c \in NetClients : Connect(c)
    \/ \E c \in NetClients, argv \in Requests \cup {<<>>} : ClientRun(c, argv)
    \/ \E c \in NetClients : ClientEof(c)
    \/ \E argv \in Requests \ {<<b_QUIT>>} : TestExecute(argv, MaxReq)

Spec == Init /\ [][Next]_vars

----------------------------------------------------------------------------
(* SpecTx: transactions of one client. *)

TxRequests ==
    {<<b_SET, b_k, b_a>>, <<b_GET, b_k>>, <<b_INCR, b_k>>, <<b_LLEN, b_k>>,
     <<b_MULTI>>, <<b_EXEC>>, <<b_FOO>>, <<b_GET>>}

NextTx == \E argv \in TxRequests : TestExecute(argv, MaxReqTx)

SpecTx == Init /\ [][NextTx]_vars

----------------------------------------------------------------------------
(* SpecKeys: the key commands of one client on one key, with the clock. *)

KeyRequests ==
    {<<b_GET, b_k>>, <<b_STRLEN, b_k>>, <<b_SET, b_k, b_a>>, <<b_SET, b_k, b_1, b_EX, b_0>>,
     <<b_SET, b_k, b_a, b_NX>>, <<b_SET, b_k, b_a, b_XX>>, <<b_SET, b_k, b_a, b_NX, b_XX>>,
     <<b_SET, b_k, b_01>>, <<b_SET, b_k, b_a, b_PX, b_500>>,
     <<b_INCR, b_k>>, <<b_DECR, b_k>>, <<b_APPEND, b_k, b_a>>, <<b_SETNX, b_k, b_a>>,
     <<b_DEL, b_k>>, <<b_DUMP, b_k>>, <<b_EXPIRE, b_k, b_1>>, <<b_PERSIST, b_k>>,
     <<b_LPUSH, b_k, b_a>>, <<b_LPUSHX, b_k, b_a>>, <<b_LLEN, b_k>>, <<b_LPOP, b_k>>}

NextKeys ==
    \/ \E argv \in KeyRequests : TestExecute(argv, MaxReqKeys)
    \/ Tick

SpecKeys == Init /\ [][NextKeys]_vars

----------------------------------------------------------------------------
(* SpecKill: CLIENT KILL among two connections and the test client.  Once a *)
(* transport is closed the event loop feeds end of stream to its reader, so *)
(* a loop that is still running gets to observe it.                         *)

KillRequests ==
    {<<b_CLIENT, b_KILL, b_c1>>, <<b_CLIENT, b_KILL, b_c9>>, <<b_SET, b_k, b_a>>, <<b_FOO>>}

NextKill ==
    \/ \E c \in NetClients : Connect(c)
    \/ \E c \in NetClients, argv \in KillRequests : ClientRun(c, argv)
    \/ \E c \in NetClients : ClientEof(c)
    \/ \E c \in NetClients : ClientClosed(c)
    \/ \E argv \in KillRequests : TestExecute(argv, MaxReq)

SpecKill == Init /\ [][NextKill]_vars /\ \A c \in NetClients : WF_vars(ClientClosed(c))

----------------------------------------------------------------------------
(* SpecCodec: a reply value is encoded by resp_dumps and the encoding is   *)
(* decoded by resp_loads.                                                   *)

b_OK == <<79, 75>>
b_ERR == <<69, 82, 82>>
b_WRONGTYPE == <<87, 82, 79, 78, 71, 84, 89, 80, 69>>

RespScalars ==
    {RedisSimpleStringSerializationObject(b) : b \in {b_OK, b_a, <<>>}}
    \cup {RedisErrorStringSerializationObject(e, m) :
              e \in {b_ERR, b_WRONGTYPE}, m \in {b_a, <<97, 32, 98>>}}
    \cup {RedisIntegerSerializationObject(n) : n \in (0 - MaxIntAbs)..MaxIntAbs}
    \cup {RedisBulkStringSerializationObject(None)}
    \cup {RedisBulkStringSerializationObject(PyBytes(b)) :
              b \in {<<>>, b_a, CRLF, <<128>>}}

RespValues ==
    RespScalars
    \cup {RedisListSerializationObject(l) :
              l \in UNION {[1..n -> RespScalars \cup {RedisListSerializationObject(<<>>)}] :
                               n \in 0..MaxListLen}}

InitCodec ==
    /\ InitServer
    /\ codec \in {[respobj |-> <<v>>, raw |-> <<>>, loaded |-> <<>>] : v \in RespValues}

\* raw = resp_dumps(respobj)
Dumps ==
    /\ codec.respobj # <<>>
    /\ codec.raw = <<>>
    /\ codec' = [codec EXCEPT !.raw = <<resp_dumps(codec.respobj[1])>>]
    /\ UNCHANGED <<key_space, now, clients, loop, stat, multi_command_list, last, nreq,
                   transport, name>>

\* loaded = resp_loads(raw)
Loads ==
    /\ codec.raw # <<>>
    /\ codec.loaded = <<>>
    /\ codec' = [codec EXCEPT !.loaded = <<resp_loads(codec.raw[1])>>]
    /\ UNCHANGED <<key_space, now, clients, loop, stat, multi_command_list, last, nreq,
                   transport, name>>

NextCodec == Dumps \/ Loads

SpecCodec == InitCodec /\ [][NextCodec]_vars

----------------------------------------------------------------------------
(* SpecForms: the test client is given requests as bytes, in the inline    *)
(* form and in the array form.                                              *)

\* a request line and the tokens it stands for
Form(inline, tokens) == [inline |-> inline, tokens |-> tokens]

\* SET k a, SET k "\x80", set k 'a', GET k, DEL k, INCR k, LPUSH k a, MULTI,
\* EXEC, FOO, each ended by CRLF
FormPairs ==
    {Form(<<83, 69, 84, 32, 107, 32, 97, 13, 10>>,
          <<b_SET, b_k, b_a>>),
     Form(<<83, 69, 84, 32, 107, 32, 34, 92, 120, 56, 48, 34, 13, 10>>,
          <<b_SET, b_k, <<128>>>>),
     Form(<<115, 101, 116, 32, 107, 32, 39, 97, 39, 13, 10>>,
          <<lower(b_SET), b_k, b_a>>),
     Form(<<71, 69, 84, 32, 107, 13, 10>>,
          <<b_GET, b_k>>),
     Form(<<68, 69, 76, 32, 107, 13, 10>>,
          <<b_DEL, b_k>>),
     Form(<<73, 78, 67, 82, 32, 107, 13, 10>>,
          <<b_INCR, b_k>>),
     Form(<<76, 80, 85, 83, 72, 32, 107, 32, 97, 13, 10>>,
          <<b_LPUSH, b_k, b_a>>),
     Form(<<77, 85, 76, 84, 73, 13, 10>>,
          <<b_MULTI>>),
     Form(<<69, 88, 69, 67, 13, 10>>,
          <<b_EXEC>>),
     Form(<<70, 79, 79, 13, 10>>,
          <<b_FOO>>)}

\* the array of bulk strings carrying the tokens
ArrayForm(tokens) ==
    to_resp(RedisListSerializationObject(
                [i \in 1..Len(tokens) |->
                     RedisBulkStringSerializationObject(PyBytes(tokens[i]))]))

NextForms ==
    \/ \E p \in FormPairs : TestExecuteStr(p.inline, MaxReqForms)
    \/ \E p \in FormPairs : \E command_str \in {ArrayForm(p.tokens)} :
          TestExecuteStr(command_str, MaxReqForms)

SpecForms == Init /\ [][NextForms]_vars

----------------------------------------------------------------------------
(* SpecWire: connections are sent requests as bytes.                        *)

\* array-form requests that are malformed: an argument header that does not
\* start with '$'; a length that is not a number; a payload shorter than the
\* announced length; no CRLF after the payload; end of stream in the middle
\* of the request
MalformedRequests ==
    {<<42, 49, 13, 10, 43, 51, 13, 10, 70, 79, 79, 13, 10>>,
     <<42, 49, 13, 10, 36, 120, 13, 10, 70, 79, 79, 13, 10>>,
     <<42, 49, 13, 10, 36, 53, 13, 10, 70, 79, 79, 13, 10>>,
     <<42, 49, 13, 10, 36, 51, 13, 10, 70, 79, 79, 120, 120>>,
     <<42, 50, 13, 10, 36, 51, 13, 10, 71, 69, 84, 13, 10>>,
     <<42, 49, 13, 10>>}

\* *2\r\n$3\r\nGET\r\n$1\r\nk\r\n, *0\r\n, SET k a\r\n, GET k\r\n, INCR
\* k\r\n, MULTI\r\n, QUIT\r\n
WireRequests ==
    MalformedRequests \cup
    {<<42, 50, 13, 10, 36, 51, 13, 10, 71, 69, 84, 13, 10, 36, 49, 13, 10, 107, 13, 10>>,
     <<42, 48, 13, 10>>,
     <<83, 69, 84, 32, 107, 32, 97, 13, 10>>,
     <<71, 69, 84, 32, 107, 13, 10>>,
     <<73, 78, 67, 82, 32, 107, 13, 10>>,
     <<77, 85, 76, 84, 73, 13, 10>>,
     <<81, 85, 73, 84, 13, 10>>}

NextWire ==
    \/ \E c \in NetClients : Connect(c)
    \/ \E c \in NetClients, data \in WireRequests : ClientRunRaw(c, data, MaxReqWire)
    \/ \E c \in NetClients : ClientEof(c)

SpecWire == Init /\ [][NextWire]_vars

----------------------------------------------------------------------------
(* SpecArith: the counters, at the ends of the signed 64-bit range.         *)

ArithRequests ==
    {<<b_SET, b_k, b_MAX64>>, <<b_SET, b_k, b_MIN64>>, <<b_SET, b_k, b_1>>, <<b_SET, b_k, b_a>>,
     <<b_INCR, b_k>>, <<b_DECR, b_k>>,
     <<b_INCRBY, b_k, b_1>>, <<b_DECRBY, b_k, b_1>>,
     <<b_INCRBY, b_k, b_MAX64>>, <<b_DECRBY, b_k, b_MAX64>>, <<b_INCRBY, b_k, b_MIN64>>,
     <<b_INCRBY, b_k, b_a>>, <<b_DECRBY, b_k, b_a>>}

NextArith == \E argv \in ArithRequests : TestExecute(argv, MaxReqArith)

SpecArith == Init /\ [][NextArith]_vars

----------------------------------------------------------------------------
(* SpecBits: strings as bitmaps.                                            *)

BitOffsets == {b_0, b_7, b_8, b_9, b_16}

BitRequests ==
    {<<b_SET, b_k, b_a>>, <<b_DEL, b_k>>}
    \cup {<<b_SETBIT, b_k, o, b>> : o \in BitOffsets, b \in {b_0, b_1}}
    \cup {<<b_GETBIT, b_k, o>> : o \in BitOffsets}

NextBits == \E argv \in BitRequests : TestExecute(argv, MaxReqBits)

SpecBits == Init /\ [][NextBits]_vars

----------------------------------------------------------------------------
(* SpecBitop: BITOP over the keys k and s (and the absent key a), into d or *)
(* into a source.                                                           *)

BitopRequests ==
    {<<b_SET, b_k, b_a>>, <<b_SET, b_s, b_16>>, <<b_SET, b_d, b_1>>}
    \cup {<<b_BITOP, op, b_d, b_k, b_s>> : op \in {b_AND, b_OR, b_XOR}}
    \cup {<<b_BITOP, op, b_d, b_s, b_a, b_k>> : op \in {b_AND, b_OR, b_XOR}}
    \cup {<<b_BITOP, op, b_k, b_k, b_s>> : op \in {b_AND, b_XOR}}
    \cup {<<b_BITOP, op, b_d, b_a, b_k>> : op \in {b_AND, b_OR}}
    \cup {<<b_BITOP, b_NOT, b_d, b_k>>, <<b_BITOP, b_NOT, b_s, b_s>>,
          <<b_BITOP, b_NOT, b_d, b_a>>}

NextBitop == \E argv \in BitopRequests : TestExecute(argv, MaxReqBitop)

SpecBitop == Init /\ [][NextBitop]_vars

----------------------------------------------------------------------------
(* SpecLists: the list commands of one client on the key k, which may also *)
(* hold a string.                                                           *)

ListRequests ==
    {<<b_LPUSH, b_k, b_a>>, <<b_LPUSH, b_k, b_a, b_b>>, <<b_LPUSHX, b_k, b_a>>,
     <<b_LRANGE, b_k, b_0, b_m1>>, <<b_LRANGE, b_k, b_1, b_1>>, <<b_LRANGE, b_k, b_m2, b_7>>,
     <<b_LPOP, b_k>>, <<b_LLEN, b_k>>,
     <<b_LINSERT, b_k, b_BEFORE, b_a, b_b>>, <<b_LINSERT, b_k, b_AFTER, b_a, b_b>>,
     <<b_LINSERT, b_k, b_BEFORE, b_s, b_b>>,
     <<b_LSET, b_k, b_0, b_s>>, <<b_LSET, b_k, b_m1, b_s>>, <<b_LSET, b_k, b_7, b_s>>,
     <<b_LSET, b_k, b_m2, b_s>>,
     <<b_SET, b_k, b_a>>, <<b_DEL, b_k>>}

NextLists == \E argv \in ListRequests : TestExecute(argv, MaxReqLists)

SpecLists == Init /\ [][NextLists]_vars

----------------------------------------------------------------------------
(* SpecDel: DEL among the keys k, s and del, the command name written in   *)
(* either case.                                                             *)

DelRequests ==
    {<<b_SET, b_k, b_a>>, <<b_SET, b_s, b_1>>, <<b_SET, b_del, b_a>>,
     <<b_DEL, b_k>>, <<b_del, b_k>>, <<b_DEL, b_k, b_s>>, <<b_del, b_s, b_a>>,
     <<b_DEL, b_a>>, <<b_DEL, b_del>>}

NextDel == \E argv \in DelRequests : TestExecute(argv, MaxReqDel)

SpecDel == Init /\ [][NextDel]_vars

----------------------------------------------------------------------------
(* SpecExpiry: the commands that write the key k, with and without a       *)
(* timeout on it; the clock stands still.                                   *)

ExpiryRequests ==
    {<<b_SET, b_k, b_1>>, <<b_SET, b_k, b_1, b_EX, b_9>>, <<b_EXPIRE, b_k, b_7>>,
     <<b_PERSIST, b_k>>, <<b_DEL, b_k>>, <<b_GETSET, b_k, b_a>>, <<b_GETSET, b_k, b_1>>,
     <<b_INCR, b_k>>, <<b_DECR, b_k>>, <<b_INCRBY, b_k, b_1>>, <<b_APPEND, b_k, b_a>>,
     <<b_SETRANGE, b_k, b_0, b_a>>, <<b_SETBIT, b_k, b_7, b_1>>, <<b_LPUSH, b_k, b_a>>}

NextExpiry == \E argv \in ExpiryRequests : TestExecute(argv, MaxReqExpiry)

SpecExpiry == Init /\ [][NextExpiry]_vars

----------------------------------------------------------------------------
(* SpecLists2: the list commands of one client on the keys k and s.        *)

Lists2Requests ==
    {<<b_LPUSH, b_k, b_a>>, <<b_LPUSH, b_k, b_a, b_b>>, <<b_LPUSH, b_s, b_b>>,
     <<b_LPUSHX, b_k, b_a>>, <<b_LPOP, b_k>>, <<b_LSET, b_k, b_0, b_s>>,
     <<b_LINSERT, b_k, b_BEFORE, b_a, b_b>>,
     <<b_LREM, b_k, b_0, b_a>>, <<b_LREM, b_k, b_m1, b_a>>,
     <<b_LTRIM, b_k, b_0, b_m1>>, <<b_LTRIM, b_k, b_0, b_2>>, <<b_LTRIM, b_k, b_0, b_0>>,
     <<b_LTRIM, b_k, b_1, b_0>>, <<b_LTRIM, b_k, b_7, b_m1>>, <<b_LTRIM, b_s, b_0, b_m1>>,
     <<b_SET, b_s, b_a>>, <<b_DEL, b_s>>}

NextLists2 == \E argv \in Lists2Requests : TestExecute(argv, MaxReqLists2)

SpecLists2 == Init /\ [][NextLists2]_vars

----------------------------------------------------------------------------
(* SpecBitpos: BITPOS on the key k holding 0xff, 0xff 0xff, 0x80 0x80,     *)
(* 0x00 or 'a', or absent.                                                  *)

BitposRequests ==
    {<<b_SET, b_k, v>> : v \in {<<255>>, <<255, 255>>, <<128, 128>>, <<0>>, b_a}}
    \cup {<<b_DEL, b_k>>}
    \cup {<<b_BITPOS, b_k, bit>> : bit \in {b_0, b_1}}
    \cup {<<b_BITPOS, b_k, bit, b_1>> : bit \in {b_0, b_1}}
    \cup {<<b_BITPOS, b_k, bit, b_0, b_0>> : bit \in {b_0, b_1}}
    \cup {<<b_BITPOS, b_k, bit, b_1, b_m1>> : bit \in {b_0, b_1}}

NextBitpos == \E argv \in BitposRequests : TestExecute(argv, MaxReqBitpos)

SpecBitpos == Init /\ [][NextBitpos]_vars

----------------------------------------------------------------------------
(* SpecSetrange: SETRANGE on the key k holding up to two bytes, or absent. *)

SetrangeRequests ==
    {<<b_SET, b_k, b_a>>, <<b_SET, b_k, b_ab>>, <<b_SET, b_k, b_s>>, <<b_DEL, b_k>>}
    \cup {<<b_SETRANGE, b_k, offset, value>> : offset \in {b_0, b_1, b_2}, value \in {b_a, b_b, b_s}}

NextSetrange == \E argv \in SetrangeRequests : TestExecute(argv, MaxReqSetrange)

SpecSetrange == Init /\ [][NextSetrange]_vars

----------------------------------------------------------------------------
(* SpecFlush: keys made by string and list commands, with and without an  *)
(* expiry, the clock, and the two flush commands.                          *)

FlushRequests ==
    {<<b_SET, b_k, b_a>>, <<b_SET, b_s, b_1>>, <<b_SET, b_k, b_a, b_PX, b_500>>,
     <<b_APPEND, b_s, b_a>>, <<b_INCR, b_s>>, <<b_SETBIT, b_k, b_7, b_1>>,
     <<b_LPUSH, b_k, b_a>>, <<b_GET, b_k>>, <<b_FLUSHDB>>, <<b_FLUSHALL>>}

NextFlush ==
    \/ \E argv \in FlushRequests : TestExecute(argv, MaxReqFlush)
    \/ Tick

SpecFlush == Init /\ [][NextFlush]_vars

----------------------------------------------------------------------------
(* SpecErr: commands that are refused or raise, on an absent key and on a  *)
(* key holding an integer or another string.                               *)

ErrRequests ==
    {<<b_SET, b_k, b_a>>, <<b_SET, b_k, b_1>>, <<b_DEL, b_k>>, <<b_GET, b_k>>,
     <<b_SETBIT, b_k, b_7, b_1>>, <<b_SETBIT, b_k, b_m1, b_1>>,
     <<b_SETBIT, b_k, b_a, b_1>>, <<b_SETBIT, b_k, b_0, b_a>>,
     <<b_SETEX, b_k, b_0, b_a>>, <<b_SETEX, b_k, b_m1, b_a>>,
     <<b_SETEX, b_k, b_1, b_a>>, <<b_SETEX, b_k, b_a, b_a>>,
     <<b_INCR, b_k>>, <<b_LPUSH, b_k, b_a>>}

NextErr == \E argv \in ErrRequests : TestExecute(argv, MaxReqErr)

SpecErr == Init /\ [][NextErr]_vars

----------------------------------------------------------------------------
(* SpecView: one key whose value is left by SET, by INCR, DECR and INCRBY, *)
(* or by INCRBYFLOAT, and the integer commands on it.                      *)

ViewRequests ==
    {<<b_SET, b_k, b_1>>, <<b_SET, b_k, b_a>>, <<b_DEL, b_k>>,
     <<b_INCRBYFLOAT, b_k, b_1>>, <<b_INCRBYFLOAT, b_k, b_05>>, <<b_INCRBYFLOAT, b_k, b_a>>,
     <<b_INCR, b_k>>, <<b_DECR, b_k>>, <<b_INCRBY, b_k, b_m1>>}

NextView == \E argv \in ViewRequests : TestExecute(argv, MaxReqView)

SpecView == Init /\ [][NextView]_vars

----------------------------------------------------------------------------
(* Properties *)

MULTI_MODE(c) == stat[c] = STAT_MULTI
QUEUED == RedisSimpleStringSerializationObject("QUEUED")

\* the step serves a request of client c
Serves(c) == nreq' = nreq + 1 /\ last'.c = c

\* the step serves a request of client c that names a command
ServesCommand(c) == Serves(c) /\ Len(last'.argv) > 0

\* the handler invocations of client c for the commands cmds
Tagged(c, cmds) == [i \in 1..Len(cmds) |-> <<c, cmds[i]>>]

IsPrefix(s, t) == Len(s) <= Len(t) /\ s = SubSeq(t, 1, Len(s))

\* C1: while a client is in MULTI mode, a command other than EXEC, QUIT and
\* DISCARD is not executed: it becomes the last entry of that client's queue,
\* the reply is QUEUED, and the keyspace is unchanged.
C1_MultiQueues ==
    [][\A c \in ClientIds :
          (/\ ServesCommand(c)
           /\ MULTI_MODE(c)
           /\ upper(last'.argv[1]) \notin {b_EXEC, b_QUIT, b_DISCARD})
          => /\ multi_command_list'[c] = Append(multi_command_list[c], last'.argv)
             /\ \A d \in ClientIds \ {c} : multi_command_list'[d] = multi_command_list[d]
             /\ last'.reply = QUEUED
             /\ last'.ran = <<>>
             /\ key_space' = key_space
             /\ stat' = stat]_vars

\* a connection in MULTI mode has queued a second command, a SET of a key
\* that the keyspace does not hold
C1_Witness ==
    /\ last.c \in NetClients
    /\ last.how = "queued"
    /\ last.argv = <<b_SET, b_k, b_a>>
    /\ Len(multi_command_list[last.c]) = 2
    /\ ~Has(key_space, b_k)

\* C5: a request is served in one piece: only handlers of the requesting
\* client run while it is served, no other client's mode or queue changes,
\* a request other than EXEC runs at most its own command, and EXEC runs the
\* queued commands in the order they were queued, stopping only where one
\* raises.
C5_WholeCommands ==
    [][\A c \in ClientIds :
          ServesCommand(c) =>
            /\ \A i \in 1..Len(last'.ran) : last'.ran[i][1] = c
            /\ \A d \in ClientIds \ {c} :
                  stat'[d] = stat[d] /\ multi_command_list'[d] = multi_command_list[d]
            /\ IF MULTI_MODE(c) /\ last'.how = "dispatched"
               THEN /\ last'.ran[1] = <<c, last'.argv>>
                    /\ IsPrefix(Tail(last'.ran), Tagged(c, multi_command_list[c]))
                    /\ last'.exc = "none" /\ last'.reply[1] = "List"
                          => Tail(last'.ran) = Tagged(c, multi_command_list[c])
               ELSE IsPrefix(last'.ran, <<<<c, last'.argv>>>>)]_vars

\* a connection has run a batch of two different commands with EXEC while
\* another connection was being served
C5_Witness ==
    /\ last.c \in NetClients
    /\ Len(last.argv) > 0
    /\ upper(last.argv[1]) = b_EXEC
    /\ Len(last.ran) = 3
    /\ last.ran[2] # last.ran[3]
    /\ last.reply # <<>>
    /\ last.reply[1] = "List"
    /\ \E d \in NetClients \ {last.c} : loop[d] = "running"

\* C6: a MULTI received from a client in MULTI mode gets an error reply,
\* leaves the client in MULTI mode and leaves its queue unchanged.
C6_NestedMultiIsError ==
    [][\A c \in ClientIds :
          (ServesCommand(c) /\ MULTI_MODE(c) /\ upper(last'.argv[1]) = b_MULTI)
          => /\ last'.reply # <<>>
             /\ last'.reply[1] = "ErrorString"
             /\ stat'[c] = STAT_MULTI
             /\ multi_command_list'[c] = multi_command_list[c]]_vars

\* C10: a request of a connection in NORMAL mode whose command name is not
\* registered is answered with -ERR unknown command '<name>'; the loop keeps
\* running, the client stays in the registry, the keyspace is unchanged.
C10_UnknownCommand ==
    [][\A c \in NetClients :
          (/\ ServesCommand(c)
           /\ ~MULTI_MODE(c)
           /\ upper(last'.argv[1]) # b_QUIT
           /\ lower(last'.argv[1]) \notin handlers)
          => /\ last'.reply = RedisErrorStringSerializationObject("ERR",
                                 <<"unknown command '%s'", lower(last'.argv[1])>>)
             /\ loop'[c] = "running"
             /\ c \in clients'
             /\ key_space' = key_space]_vars

\* the step serves an EXEC of client c, which is in MULTI mode
ServesExec(c) == ServesCommand(c) /\ MULTI_MODE(c) /\ upper(last'.argv[1]) = b_EXEC

\* C2: EXEC of a client in MULTI mode runs each queued command once, in
\* the order queued, replies with an array of as many elements as commands
\* were queued, and leaves the client in NORMAL mode with an empty queue.
C2_ExecRunsQueueOnce ==
    [][\A c \in ClientIds :
          ServesExec(c) =>
            /\ last'.ran = <<<<c, last'.argv>>>> \o Tagged(c, multi_command_list[c])
            /\ last'.reply # <<>>
            /\ last'.reply[1] = "List"
            /\ Len(last'.reply[2]) = Len(multi_command_list[c])
            /\ stat'[c] = STAT_NORMAL
            /\ multi_command_list'[c] = <<>>]_vars

\* the command fails when it is dispatched in world W: it raises, or its
\* reply is an error
Fails(W, c, cmd) ==
    LET r == exec_command(W, cmd, c) IN
    r.out # "return" \/ r.val[1] = "ErrorString"

\* the world in which the i-th queued command is dispatched, when the ones
\* before it have returned
RECURSIVE WorldAt(_, _, _, _)
WorldAt(W, c, cmds, i) ==
    IF i = 1 THEN W ELSE WorldAt(exec_command(W, Head(cmds), c).W, c, Tail(cmds), i - 1)

\* the first position of the queue whose command fails, 0 when none does
RECURSIVE FirstFailure(_, _, _, _)
FirstFailure(W, c, cmds, i) ==
    IF i > Len(cmds) THEN 0
    ELSE IF Fails(WorldAt(W, c, cmds, i), c, cmds[i]) THEN i
    ELSE FirstFailure(W, c, cmds, i + 1)

\* the command can be handed to a handler: its name is registered and its
\* argument count fits
Runnable(cmd) == lower(cmd[1]) \in handlers /\ ArityOK(lower(cmd[1]), Len(cmd) - 1)

\* C3: when a queued command fails while EXEC runs it, EXEC still replies
\* with the array, the error is the element at the command's position,
\* every other queued command is still run, and the client is back in
\* NORMAL mode with an empty queue.
C3_ErrorsStayInArray ==
    [][\A c \in ClientIds :
          (ServesExec(c) /\ FirstFailure(World, c, multi_command_list[c], 1) > 0)
          => LET q == multi_command_list[c]
                 i == FirstFailure(World, c, q, 1)
             IN /\ last'.reply # <<>>
                /\ last'.reply[1] = "List"
                /\ Len(last'.reply[2]) = Len(q)
                /\ last'.reply[2][i][1] = "ErrorString"
                /\ \A j \in 1..Len(q) :
                      Runnable(q[j]) => \E n \in 2..Len(last'.ran) : last'.ran[n] = <<c, q[j]>>
                /\ stat'[c] = STAT_NORMAL
                /\ multi_command_list'[c] = <<>>]_vars

\* the commands issued one after another by a client through execute;
\* replies collects the replies, ok is FALSE once an exception escapes
RECURSIVE Sequential(_, _, _, _)
Sequential(W, c, cmds, replies) ==
    IF Len(cmds) = 0 THEN [W |-> W, replies |-> replies, ok |-> TRUE]
    ELSE LET r == execute(W, c, Head(cmds)) IN
         IF r.exc # "none" THEN [W |-> r.W, replies |-> replies, ok |-> FALSE]
         ELSE Sequential(r.W, c, Tail(cmds), Append(replies, r.reply))

\* C4: the array EXEC returns equals the replies the queued commands give
\* when issued one after another in NORMAL mode from the keyspace at the
\* moment of EXEC, and both runs end in the same keyspace.
C4_ExecEqualsSequential ==
    [][\A c \in ClientIds :
          ServesExec(c) =>
            LET s == Sequential([World EXCEPT !.stat[c] = STAT_NORMAL, !.mcl[c] = <<>>],
                                c, multi_command_list[c], <<>>)
            IN /\ s.ok
               /\ last'.reply = RedisListSerializationObject(s.replies)
               /\ key_space' = s.W.ks]_vars

----------------------------------------------------------------------------
(* Expiry and types (SpecKeys) *)

\* the request is served as it would be were key k absent
AsIfAbsent(c, k) ==
    LET r == execute([World EXCEPT !.ks = Del(key_space, k)], c, last'.argv) IN
    /\ last'.reply = r.reply
    /\ last'.exc = r.exc
    /\ key_space' = r.W.ks

\* the step serves a command of client c whose first argument is key k
ServesOnKey(c, k) == ServesCommand(c) /\ Len(last'.argv) >= 2 /\ last'.argv[2] = k

\* C7: once the expiry of a key has passed, every command on it replies and
\* leaves the keyspace as if the key were absent.
C7_ExpiredIsAbsent ==
    [][\A c \in ClientIds, k \in DOMAIN key_space :
          (ServesOnKey(c, k) /\ expired(key_space[k])) => AsIfAbsent(c, k)]_vars

\* the commands that look the key up with GET's own test or with get_object
LookupCommands == {lower(n) : n \in {b_GET, b_LPUSH, b_LPUSHX, b_LLEN, b_LPOP,
                                     b_EXPIRE, b_PERSIST}}

\* C8: a lookup that finds an entry past its expiry removes the entry and
\* is served as for an absent key; a lookup that finds an entry not past
\* its expiry leaves the key in the keyspace.
C8_LookupRemovesExpired ==
    [][\A c \in ClientIds, k \in DOMAIN key_space :
          (ServesOnKey(c, k) /\ lower(last'.argv[1]) \in LookupCommands)
          => IF expired(key_space[k])
             THEN ~Has(key_space', k) /\ last'.reply = execute([World EXCEPT !.ks = Del(key_space, k)], c, last'.argv).reply
             ELSE Has(key_space', k)]_vars

\* a GET found the entry of k past its expiry: the reply is nil and the
\* entry is gone
C8_Witness ==
    /\ last.argv = <<b_GET, b_k>>
    /\ b_k \in last.stale
    /\ last.reply = RedisBulkStringSerializationObject(None)
    /\ ~Has(key_space, b_k)

ListCommands == {lower(n) : n \in {b_LPUSH, b_LPUSHX, b_LLEN, b_LPOP}}
StringCommands == {lower(n) : n \in {b_GET, b_STRLEN, b_APPEND, b_INCR, b_DECR}}

IsWrongType(reply) == reply # <<>> /\ reply[1] = "ErrorString" /\ reply[2] = "WRONGTYPE"

\* C9: a list command on a key holding a string, and a string command on a
\* key holding a list, reply with a WRONGTYPE error and leave the stored
\* value unchanged.
C9_TypeIsolation ==
    [][\A c \in ClientIds, k \in DOMAIN key_space :
          (/\ ServesOnKey(c, k)
           /\ ~expired(key_space[k])
           /\ \/ /\ key_space[k].cls = "RedisStringObject"
                 /\ lower(last'.argv[1]) \in ListCommands
              \/ /\ key_space[k].cls = "RedisListObject"
                 /\ lower(last'.argv[1]) \in StringCommands)
          => IsWrongType(last'.reply) /\ key_space' = key_space]_vars

----------------------------------------------------------------------------
(* Arity (Spec) *)

WrongNumberOfArguments(cmd) ==
    RedisErrorStringSerializationObject("ERR",
        <<"wrong number of arguments for '%s' command", cmd>>)

\* C11: a request of a connection in NORMAL mode that names a registered
\* command with an argument count its arity rule rejects invokes no handler,
\* is answered with -ERR wrong number of arguments for '<cmd>' command,
\* leaves the keyspace and every client's mode and queue unchanged, and the
\* connection keeps running.
C11_ArityRejected ==
    [][\A c \in NetClients :
          (/\ ServesCommand(c)
           /\ ~MULTI_MODE(c)
           /\ upper(last'.argv[1]) # b_QUIT
           /\ lower(last'.argv[1]) \in handlers
           /\ ~ArityOK(lower(last'.argv[1]), Len(last'.argv) - 1))
          => /\ last'.ran = <<>>
             /\ last'.reply = WrongNumberOfArguments(lower(last'.argv[1]))
             /\ key_space' = key_space
             /\ stat' = stat
             /\ multi_command_list' = multi_command_list
             /\ loop'[c] = "running"
             /\ c \in clients']_vars

----------------------------------------------------------------------------
(* Handler outcomes (SpecKeys) *)

\* C13: when a request names a registered command and passes the arity
\* test, the handler ends by returning a value or by raising CommandError;
\* no other exception leaves it.
C13_HandlersEndTyped ==
    [][\A c \in ClientIds :
          (/\ ServesCommand(c)
           /\ last'.how = "dispatched"
           /\ lower(last'.argv[1]) \in handlers
           /\ ArityOK(lower(last'.argv[1]), Len(last'.argv) - 1))
          => func(lower(last'.argv[1]), World, c, last'.argv).out
                 \in {"return", "CommandError"}]_vars

----------------------------------------------------------------------------
(* SET and GET (SpecKeys) *)

OK == RedisSimpleStringSerializationObject("OK")
Nil == RedisBulkStringSerializationObject(None)
SyntaxError == RedisErrorStringSerializationObject("ERR", <<"syntax error">>)

\* the step serves a SET of client c on key k
ServesSet(c, k) ==
    ServesOnKey(c, k) /\ last'.how = "dispatched" /\ upper(last'.argv[1]) = b_SET
        /\ Len(last'.argv) >= 3

\* the reply of a GET of key k by client c in the state the step leads to
GetAfter(c, k) == execute(World', c, <<b_GET, k>>)

\* C17: after a SET k v that replied OK, a GET k issued before any other
\* write and before the expiry returns a bulk string holding exactly the
\* bytes v.
C17_SetThenGet ==
    [][\A c \in ClientIds, k \in {b_k} :
          (/\ ServesSet(c, k)
           /\ last'.reply = OK
           /\ Has(key_space', k)
           /\ ~expired(key_space'[k]))
          => /\ GetAfter(c, k).exc = "none"
             /\ GetAfter(c, k).reply = RedisBulkStringSerializationObject(PyBytes(last'.argv[3]))]_vars

\* the options of a SET request, lower-cased
Options(argv) == {lower(argv[i]) : i \in 4..Len(argv)}

\* a key exists when the keyspace holds it and its expiry has not passed
Exists(k) == Has(key_space, k) /\ ~expired(key_space[k])

\* C19: SET with NX on an existing key and SET with XX on an absent key
\* reply nil and leave the keyspace unchanged; SET with NX and XX replies
\* with a syntax error and writes nothing; SET NX on an absent key and SET
\* XX on an existing key store the value and reply OK.
C19_SetNxXx ==
    [][\A c \in ClientIds, k \in {b_k} :
          (ServesSet(c, k) /\ Options(last'.argv) # {}
                /\ Options(last'.argv) \subseteq {lower(b_NX), lower(b_XX)})
          => LET nx == lower(b_NX) \in Options(last'.argv)
                 xx == lower(b_XX) \in Options(last'.argv)
             IN IF nx /\ xx
                THEN last'.reply = SyntaxError /\ key_space' = key_space
                ELSE IF (nx /\ Exists(k)) \/ (xx /\ ~Exists(k))
                THEN last'.reply = Nil /\ key_space' = key_space
                ELSE /\ last'.reply = OK
                     /\ Has(key_space', k)
                     /\ get_bytes(key_space'[k]) = last'.argv[3]
                     /\ key_space'[k].expire_time = None]_vars

\* the milliseconds the EX and PX options of a SET request add up to
RECURSIVE ExpiryMs(_, _)
ExpiryMs(argv, i) ==
    IF i >= Len(argv) THEN 0
    ELSE IF lower(argv[i]) = lower(b_EX) THEN 1000 * int(argv[i + 1]) + ExpiryMs(argv, i + 2)
    ELSE IF lower(argv[i]) = lower(b_PX) THEN int(argv[i + 1]) + ExpiryMs(argv, i + 2)
    ELSE ExpiryMs(argv, i + 1)

HasExpiryOption(argv) == \E i \in 4..Len(argv) : lower(argv[i]) \in {lower(b_EX), lower(b_PX)}

\* C20: a SET with EX and PX options that replied OK at time t gives the key
\* the expiry t plus the seconds of EX and the milliseconds of PX; a GET of a
\* key with an expiry returns the value while the time is not past the
\* expiry and nil once it is.
C20_SetExpiry ==
    [][\A c \in ClientIds, k \in {b_k} :
          /\ (ServesSet(c, k) /\ last'.reply = OK /\ HasExpiryOption(last'.argv))
             => /\ Has(key_space', k)
                /\ key_space'[k].expire_time = <<now + ExpiryMs(last'.argv, 4)>>
          /\ (/\ ServesOnKey(c, k)
              /\ upper(last'.argv[1]) = b_GET
              /\ Has(key_space, k)
              /\ key_space[k].cls = "RedisStringObject"
              /\ key_space[k].expire_time # None)
             => IF now <= key_space[k].expire_time[1]
                THEN last'.reply = RedisBulkStringSerializationObject(
                                       PyBytes(get_bytes(key_space[k])))
                ELSE last'.reply = Nil]_vars

----------------------------------------------------------------------------
(* QUIT and CLIENT KILL *)

\* C14: a QUIT of a connection, in NORMAL or MULTI mode, is answered +OK
\* without running a handler, ends the connection's loop, closes its
\* transport and removes the client from the registry; a connection whose
\* loop has ended is served no further request.
C14_Quit ==
    [][\A c \in NetClients :
          /\ (ServesCommand(c) /\ upper(last'.argv[1]) = b_QUIT)
             => /\ last'.reply = OK
                /\ last'.ran = <<>>
                /\ loop'[c] = "ended"
                /\ transport'[c] = "closed"
                /\ c \notin clients'
          /\ loop[c] = "ended" => ~Serves(c)]_vars

NoSuchClient == RedisErrorStringSerializationObject("ERR", <<"No such client">>)

\* the step serves CLIENT KILL <address> of client c
ServesKill(c) ==
    /\ ServesCommand(c)
    /\ last'.how = "dispatched"
    /\ lower(last'.argv[1]) = lower(b_CLIENT)
    /\ Len(last'.argv) = 3
    /\ upper(last'.argv[2]) = b_KILL

\* C15: CLIENT KILL of a registered address closes that client's transport
\* and replies OK, and CLIENT KILL of an address that is not registered
\* replies 'No such client' and changes nothing; a registered client whose
\* transport was closed eventually has its loop ended and its entry removed
\* from the registry.
C15_ClientKill ==
    /\ [][\A c \in ClientIds :
            ServesKill(c) =>
              IF decode(last'.argv[3]) \in clients
              THEN /\ last'.reply = OK
                   /\ transport'[decode(last'.argv[3])] = "closed"
              ELSE /\ last'.reply = NoSuchClient
                   /\ UNCHANGED <<key_space, clients, loop, stat, multi_command_list,
                                  transport, name>>]_vars
    /\ \A a \in NetClients :
          (a \in clients /\ transport[a] = "closed") ~> (a \notin clients /\ loop[a] = "ended")

----------------------------------------------------------------------------
(* The codec (SpecCodec) *)

\* C16: resp_loads gives back the value resp_dumps encoded, for every reply
\* value, and nil, the empty bulk string and the empty array have three
\* different encodings.
C16_RoundTrip ==
    /\ codec.loaded # <<>>
          => /\ codec.loaded[1].out = "return"
             /\ codec.loaded[1].val = codec.respobj[1]
    /\ LET nil == to_resp(RedisBulkStringSerializationObject(None))
           empty == to_resp(RedisBulkStringSerializationObject(PyBytes(<<>>)))
           none == to_resp(RedisListSerializationObject(<<>>))
       IN nil # empty /\ nil # none /\ empty # none

----------------------------------------------------------------------------
(* The request forms (SpecForms) *)

\* the outcome of the test client's execute on the other form of the request
SameOutcome(p, other) ==
    LET r == execute_str(World, TestClient, other) IN
    /\ last'.argv = p.tokens
    /\ command_argv(other) = Parsed(p.tokens)
    /\ key_space' = r.W.ks
    /\ stat' = r.W.stat
    /\ multi_command_list' = r.W.mcl
    /\ last'.reply = r.reply
    /\ last'.exc = r.exc

\* C18: a request given in the inline form and the same request given as an
\* array of bulk strings carrying the line's tokens yield the same argv, the
\* same effect on the keyspace and the same reply.
C18_FormsEquivalent ==
    [][\A p \in FormPairs :
          /\ codec'.raw = <<p.inline>> => SameOutcome(p, ArrayForm(p.tokens))
          /\ codec'.raw = <<ArrayForm(p.tokens)>> => SameOutcome(p, p.inline)]_vars

----------------------------------------------------------------------------
(* Requests on a connection (SpecWire) *)

ProtocolErrorReplies ==
    {RedisErrorStringSerializationObject("ERR", <<"Protocol error: %s", e>>) :
         e \in {"Invalid length", "Length not match"}
                \cup {<<"expected '$', got '\\x%x'", b>> : b \in 0..255}}

\* C12: a malformed array-form request is answered by one -ERR Protocol error
\* reply, no command is dispatched for it, and the connection is closed: the
\* transport is closed, the loop has ended and the client is unregistered.
C12_ProtocolError ==
    [][\A c \in NetClients, data \in MalformedRequests :
          (codec'.raw = <<data>> /\ last'.c = c /\ nreq' = nreq + 1)
             => /\ last'.exc = "none"
                /\ last'.reply \in ProtocolErrorReplies
                /\ last'.ran = <<>>
                /\ key_space' = key_space
                /\ transport'[c] = "closed"
                /\ loop'[c] = "ended"
                /\ c \notin clients']_vars

----------------------------------------------------------------------------
(* The counters (SpecArith) *)

NotAnInteger ==
    RedisErrorStringSerializationObject("ERR", <<"value is not an integer or out of range">>)

\* v is in [-2^63, 2^63 - 1]
InInt64(v) ==
    LET m == Magnitude(v)
        top == IF IsNeg(v) THEN 854775808 ELSE 854775807
    IN \/ m[1] < 9
       \/ m[1] = 9 /\ m[2] < 223372036
       \/ m[1] = 9 /\ m[2] = 223372036 /\ m[3] <= top

\* the step serves INCR, DECR, INCRBY or DECRBY of client c on key k, which
\* is absent or holds a string
ServesCounter(c, k) ==
    /\ ServesOnKey(c, k)
    /\ last'.how = "dispatched"
    /\ \/ upper(last'.argv[1]) \in {b_INCR, b_DECR} /\ Len(last'.argv) = 2
       \/ upper(last'.argv[1]) \in {b_INCRBY, b_DECRBY} /\ Len(last'.argv) = 3
    /\ Has(key_space, k) => isinstance(key_space[k], "RedisStringObject")

\* the amount a counter request adds, when it names one
HasDelta(argv) == Len(argv) = 2 \/ IsInt(argv[3])
Delta(argv) ==
    LET n == IF Len(argv) = 2 THEN PyInt(1) ELSE IntFromBytes(argv[3]) IN
    IF upper(argv[1]) \in {b_INCR, b_INCRBY} THEN n ELSE IntNeg(n)

\* C21: a counter command whose result would leave [-2^63, 2^63 - 1], or whose
\* stored value or amount is not an integer, replies 'value is not an integer
\* or out of range' and leaves the keyspace unchanged; otherwise a missing
\* key counts as 0 and the result is stored and returned.
C21_Counters ==
    [][\A c \in ClientIds, k \in {b_k} :
          ServesCounter(c, k) =>
             LET stored == Has(key_space, k)
                 isint == ~stored \/ CanGetInteger(key_space[k])
                 x == IF stored THEN get_integer(key_space[k]) ELSE PyInt(0)
                 r == IntAdd(x, Delta(last'.argv))
             IN IF ~HasDelta(last'.argv) \/ ~isint \/ ~InInt64(r)
                THEN last'.reply = NotAnInteger /\ key_space' = key_space
                ELSE /\ last'.exc = "none"
                     /\ last'.reply = <<"Integer">> \o Tail(r)
                     /\ Has(key_space', k)
                     /\ CanGetInteger(key_space'[k])
                     /\ get_integer(key_space'[k]) = r]_vars


\* the step serves an INCRBY of client c on key k, which held an integer
ServesIncrBy(c, k) ==
    /\ ServesOnKey(c, k)
    /\ last'.how = "dispatched"
    /\ upper(last'.argv[1]) = b_INCRBY
    /\ Len(last'.argv) = 3
    /\ IsInt(last'.argv[3])
    /\ Has(key_space, k)
    /\ isinstance(key_space[k], "RedisStringObject")
    /\ CanGetInteger(key_space[k])

----------------------------------------------------------------------------
(* Bitmaps (SpecBits) *)

\* the step serves SETBIT k o b of client c with o >= 0 and b in {0, 1}, on a
\* key that is absent or holds a string
ServesSetBit(c, k) ==
    /\ ServesOnKey(c, k)
    /\ last'.how = "dispatched"
    /\ upper(last'.argv[1]) = b_SETBIT
    /\ Len(last'.argv) = 4
    /\ IsInt(last'.argv[3]) /\ int(last'.argv[3]) >= 0
    /\ last'.argv[4] \in {b_0, b_1}
    /\ Has(key_space, k) => isinstance(key_space[k], "RedisStringObject")

\* bit number i (0 the most significant) of a byte
BitOf(byte, i) == (byte \div (2 ^ (7 - i))) % 2

\* C23: SETBIT k o b followed by GETBIT k o returns b; bit o is bit o % 8,
\* counted from the most significant one, of byte o \div 8; the value grows
\* with zero bytes to hold it and no other bit changes.
C23_SetBitGetBit ==
    [][\A c \in ClientIds, k \in {b_k} :
          ServesSetBit(c, k) =>
             LET o == int(last'.argv[3])
                 b == int(last'.argv[4])
                 old == IF Has(key_space, k) THEN get_bytes(key_space[k]) ELSE <<>>
                 oldbyte(j) == IF j <= Len(old) THEN old[j] ELSE 0
                 g == execute(World', c, <<b_GETBIT, k, last'.argv[3]>>)
             IN /\ last'.exc = "none"
                /\ g.exc = "none"
                /\ g.reply = RedisIntegerSerializationObject(b)
                /\ Has(key_space', k)
                /\ LET new == get_bytes(key_space'[k]) IN
                   /\ Len(new) = (IF Len(old) > (o \div 8) + 1 THEN Len(old) ELSE (o \div 8) + 1)
                   /\ \A j \in 1..Len(new), i \in 0..7 :
                         BitOf(new[j], i) = (IF 8 * (j - 1) + i = o THEN b
                                             ELSE BitOf(oldbyte(j), i))]_vars


\* the step serves a BITOP of client c whose sources are absent or strings
ServesBitop(c) ==
    /\ ServesCommand(c)
    /\ last'.how = "dispatched"
    /\ upper(last'.argv[1]) = b_BITOP
    /\ Len(last'.argv) >= 4
    /\ upper(last'.argv[2]) \in {b_AND, b_OR, b_XOR, b_NOT}
    /\ upper(last'.argv[2]) = b_NOT => Len(last'.argv) = 4 /\ Has(key_space, last'.argv[4])
    /\ \A i \in 4..Len(last'.argv) :
          Has(key_space, last'.argv[i]) => isinstance(key_space[last'.argv[i]], "RedisStringObject")

\* the bytes of a source, a missing key counting as empty
SourceBytes(key) == IF Has(key_space, key) THEN get_bytes(key_space[key]) ELSE <<>>

\* the byte BITOP operation stores at position j for the sources keys
BitopByte(operation, keys, j) ==
    LET byte(q) == IF j <= Len(SourceBytes(keys[q])) THEN SourceBytes(keys[q])[j] ELSE 0
        ones(i) == Cardinality({q \in 1..Len(keys) : BitOf(byte(q), i) = 1})
        bit(i) == IF operation = b_AND THEN (IF ones(i) = Len(keys) THEN 1 ELSE 0)
                  ELSE IF operation = b_OR THEN (IF ones(i) > 0 THEN 1 ELSE 0)
                  ELSE IF operation = b_XOR THEN ones(i) % 2
                  ELSE 1 - ones(i)
    IN 128 * bit(0) + 64 * bit(1) + 32 * bit(2) + 16 * bit(3)
       + 8 * bit(4) + 4 * bit(5) + 2 * bit(6) + bit(7)

----------------------------------------------------------------------------
(* Lists (SpecLists) *)

\* the elements of the list stored at k, none when k is absent
ListAt(ks, k) == IF Has(ks, k) THEN ks[k].value[2] ELSE <<>>

\* k is absent or holds a list
AbsentOrList(k) == Has(key_space, k) => isinstance(key_space[k], "RedisListObject")

\* the step serves the list command cmd of client c on key k
ServesList(c, cmd, k) ==
    /\ ServesOnKey(c, k)
    /\ last'.how = "dispatched"
    /\ upper(last'.argv[1]) = cmd
    /\ AbsentOrList(k)

\* the elements of l from start to stop inclusive, negative indices counted
\* from the tail and indices outside the list clamped
InclusiveRange(l, start, stop) ==
    LET from == IF start >= 0 THEN start
                ELSE IF Len(l) + start < 0 THEN 0 ELSE Len(l) + start
        to == IF stop < 0 THEN Len(l) + stop
              ELSE IF stop >= Len(l) THEN Len(l) - 1 ELSE stop
    IN SubSeq(l, from + 1, to + 1)

\* C25: LPUSH key v1..vn leaves the list [vn, ..., v1] followed by its
\* previous elements and replies with the new length; LRANGE key start stop
\* replies with the array of bulk strings of the inclusive range, negative
\* indices counted from the tail and out-of-range indices clamped.
C25_LPushLRange ==
    [][\A c \in ClientIds, k \in {b_k} :
          /\ ServesList(c, b_LPUSH, k) /\ Len(last'.argv) >= 3 =>
                LET values == SubSeq(last'.argv, 3, Len(last'.argv))
                    pushed == [i \in 1..Len(values) |-> values[Len(values) + 1 - i]]
                               \o ListAt(key_space, k)
                IN /\ last'.exc = "none"
                   /\ last'.reply = RedisIntegerSerializationObject(Len(pushed))
                   /\ Has(key_space', k)
                   /\ isinstance(key_space'[k], "RedisListObject")
                   /\ ListAt(key_space', k) = pushed
          /\ ServesList(c, b_LRANGE, k) /\ Len(last'.argv) = 4
                /\ IsInt(last'.argv[3]) /\ IsInt(last'.argv[4]) =>
                LET range == InclusiveRange(ListAt(key_space, k),
                                            int(last'.argv[3]), int(last'.argv[4]))
                IN /\ last'.exc = "none"
                   /\ last'.reply = RedisListSerializationObject(
                          [i \in 1..Len(range) |->
                              RedisBulkStringSerializationObject(PyBytes(range[i]))])
                   /\ key_space' = key_space]_vars


\* C28: LPOP on a non-empty list removes and returns the head and leaves the
\* other elements in their order; LPOP on a missing key replies nil and
\* creates nothing.
C28_LPop ==
    [][\A c \in ClientIds, k \in {b_k} :
          ServesList(c, b_LPOP, k) /\ Len(last'.argv) = 2 =>
             LET l == ListAt(key_space, k) IN
             /\ last'.exc = "none"
             /\ ~Has(key_space, k) =>
                   /\ last'.reply = RedisBulkStringSerializationObject(None)
                   /\ key_space' = key_space
             /\ Len(l) > 0 =>
                   /\ last'.reply = RedisBulkStringSerializationObject(PyBytes(Head(l)))
                   /\ Has(key_space', k)
                   /\ ListAt(key_space', k) = Tail(l)]_vars


\* the only request so far was an LPUSH on k, served on the empty keyspace
PushedFirst(k) ==
    /\ nreq = 1
    /\ Len(last.argv) >= 3
    /\ upper(last.argv[1]) = b_LPUSH
    /\ last.argv[2] = k

\* the list k holds: the one LPUSH made of its values when it was the only
\* request so far, the stored one otherwise
ListHeld(k) ==
    IF PushedFirst(k)
    THEN LET values == SubSeq(last.argv, 3, Len(last.argv))
         IN [i \in 1..Len(values) |-> values[Len(values) + 1 - i]]
    ELSE ListAt(key_space, k)

\* k holds a list
HoldsList(k) == PushedFirst(k) \/ Has(key_space, k)

\* C29: LINSERT key BEFORE|AFTER pivot value inserts value immediately before
\* (after) the first occurrence of pivot, wherever it is in the list, and
\* replies with the new length; it replies -1 and leaves the list unchanged
\* when pivot is not in the list, and replies nil and creates nothing when
\* the key is absent.
C29_LInsert ==
    [][\A c \in ClientIds, k \in {b_k} :
          ServesList(c, b_LINSERT, k) /\ Len(last'.argv) = 5
                /\ upper(last'.argv[3]) \in {b_BEFORE, b_AFTER} =>
             LET l == ListHeld(k)
                 pivot == last'.argv[4]
                 value == last'.argv[5]
                 found == {i \in 1..Len(l) : l[i] = pivot}
                 first == CHOOSE i \in found : \A j \in found : i <= j
                 at == IF upper(last'.argv[3]) = b_BEFORE THEN first - 1 ELSE first
                 inserted == SubSeq(l, 1, at) \o <<value>> \o SubSeq(l, at + 1, Len(l))
             IN /\ last'.exc = "none"
                /\ IF ~HoldsList(k)
                   THEN /\ last'.reply = RedisBulkStringSerializationObject(None)
                        /\ key_space' = key_space
                   ELSE IF found = {}
                   THEN /\ last'.reply = RedisIntegerSerializationObject(0 - 1)
                        /\ ListAt(key_space', k) = l
                   ELSE /\ last'.reply = RedisIntegerSerializationObject(Len(l) + 1)
                        /\ ListAt(key_space', k) = inserted]_vars

ERR_index_out_of_range == RedisErrorStringSerializationObject("ERR", <<"index out of range">>)

\* C30: LSET key index value replies 'ERR index out of range' and changes
\* nothing when the key is absent or index is outside [-len, len-1];
\* otherwise it replaces exactly the addressed element, negative indices
\* counted from the tail.
C30_LSet ==
    [][\A c \in ClientIds, k \in {b_k} :
          ServesList(c, b_LSET, k) /\ Len(last'.argv) = 4 /\ IsInt(last'.argv[3]) =>
             LET l == ListHeld(k)
                 index == int(last'.argv[3])
                 at == IF index < 0 THEN Len(l) + index + 1 ELSE index + 1
             IN /\ last'.exc = "none"
                /\ IF ~HoldsList(k) \/ index < 0 - Len(l) \/ index > Len(l) - 1
                   THEN /\ last'.reply = ERR_index_out_of_range
                        /\ key_space' = key_space
                   ELSE /\ last'.reply = RedisSimpleStringSerializationObject("OK")
                        /\ ListAt(key_space', k) = [l EXCEPT ![at] = last'.argv[4]]]_vars


----------------------------------------------------------------------------
(* DEL (SpecDel) *)

\* C26: DEL k1..kn removes exactly those of k1..kn that are stored, replies
\* with their number, and leaves every other key unchanged, whatever its name.
C26_DelFrame ==
    [][\A c \in ClientIds :
          /\ ServesCommand(c)
          /\ last'.how = "dispatched"
          /\ upper(last'.argv[1]) = b_DEL
          /\ Len(last'.argv) >= 2
          => LET named == {last'.argv[i] : i \in 2..Len(last'.argv)}
                 removed == named \cap DOMAIN key_space
             IN /\ last'.exc = "none"
                /\ last'.reply = RedisIntegerSerializationObject(Cardinality(removed))
                /\ DOMAIN key_space' = DOMAIN key_space \ removed
                /\ \A k \in DOMAIN key_space' : key_space'[k] = key_space[k]]_vars


----------------------------------------------------------------------------
(* Timeouts (SpecExpiry) *)

\* the commands that alter a value without replacing it
Altering == {b_INCR, b_DECR, b_INCRBY, b_APPEND, b_SETRANGE, b_SETBIT, b_LPUSH}

\* the request is a SET without EX or PX, NX or XX
PlainSet(argv) == upper(argv[1]) = b_SET /\ Len(argv) = 3

\* C27: on a key with a timeout, DEL removes the key and SET (without EX/PX),
\* GETSET and PERSIST clear the timeout, and no other command does; INCR,
\* DECR, INCRBY, APPEND, SETRANGE, SETBIT and LPUSH leave it as it was.
C27_TimeoutCleared ==
    [][\A c \in ClientIds, k \in {b_k} :
          /\ ServesOnKey(c, k)
          /\ last'.how = "dispatched"
          /\ Has(key_space, k)
          /\ key_space[k].expire_time # None
          => LET cmd == upper(last'.argv[1]) IN
             /\ cmd = b_DEL => ~Has(key_space', k)
             /\ PlainSet(last'.argv) \/ cmd \in {b_GETSET, b_PERSIST} =>
                   Has(key_space', k) /\ key_space'[k].expire_time = None
             /\ cmd \in Altering =>
                   Has(key_space', k) /\ key_space'[k].expire_time = key_space[k].expire_time
             /\ (Has(key_space', k) => key_space'[k].expire_time = None) =>
                   cmd \in {b_DEL, b_SET, b_GETSET, b_PERSIST}]_vars


----------------------------------------------------------------------------
(* LTRIM and lists at two keys (SpecLists2) *)

\* C31: LTRIM key start stop leaves exactly the elements start..stop
\* inclusive, negative indices counted from the tail and a stop past the end
\* taken as the last element; when nothing is left the key is removed.
C31_LTrim ==
    [][\A c \in ClientIds, k \in {b_k, b_s} :
          ServesList(c, b_LTRIM, k) /\ Len(last'.argv) = 4
                /\ IsInt(last'.argv[3]) /\ IsInt(last'.argv[4]) =>
             LET kept == InclusiveRange(ListHeld(k), int(last'.argv[3]), int(last'.argv[4]))
             IN /\ last'.exc = "none"
                /\ last'.reply = RedisSimpleStringSerializationObject("OK")
                /\ IF Len(kept) = 0 THEN ~Has(key_space', k)
                   ELSE Has(key_space', k) /\ ListAt(key_space', k) = kept]_vars


----------------------------------------------------------------------------
(* BITPOS (SpecBitpos) *)

\* the offsets of the bits equal to bit in the bytes of k selected by argv
BitposHits(k, argv) ==
    LET bytes == SourceBytes(k)
        n == Len(bytes)
        norm(i) == IF i < 0 THEN (IF n + i < 0 THEN 0 ELSE n + i) ELSE i
        first == IF Len(argv) >= 4 THEN norm(int(argv[4])) ELSE 0
        final == IF Len(argv) = 5 THEN norm(int(argv[5])) ELSE n - 1
    IN {o \in 0..(8 * n - 1) :
           /\ o \div 8 >= first /\ o \div 8 <= final
           /\ BitOf(bytes[(o \div 8) + 1], o % 8) = int(argv[3])}

\* every bit of the string at k is 1
OnlyOnes(k) == \A j \in 1..Len(SourceBytes(k)) : SourceBytes(k)[j] = 255

\* C33: BITPOS key bit [start [end]] replies with the absolute offset of the
\* first bit equal to bit in the bytes start..end; when there is none it
\* replies -1 if bit is 1 or an end was given, and the first position past
\* the end of the string if bit is 0, no end was given and the string holds
\* only 1 bits.
C33_BitPos ==
    [][\A c \in ClientIds, k \in {b_k} :
          /\ ServesOnKey(c, k)
          /\ last'.how = "dispatched"
          /\ upper(last'.argv[1]) = b_BITPOS
          /\ Len(last'.argv) \in 3..5
          /\ last'.argv[3] \in {b_0, b_1}
          /\ \A i \in 4..Len(last'.argv) : IsInt(last'.argv[i])
          /\ Has(key_space, k) => isinstance(key_space[k], "RedisStringObject")
          /\ Len(last'.argv) = 5 => Has(key_space, k)
          /\ \/ BitposHits(k, last'.argv) # {}
             \/ last'.argv[3] = b_1
             \/ Len(last'.argv) = 5
             \/ OnlyOnes(k)
          => LET hits == BitposHits(k, last'.argv)
                 expected == IF hits # {} THEN Min(hits)
                             ELSE IF last'.argv[3] = b_0 /\ Len(last'.argv) < 5
                             THEN 8 * Len(SourceBytes(k))
                             ELSE 0 - 1
             IN /\ last'.exc = "none"
                /\ last'.reply = RedisIntegerSerializationObject(expected)
                /\ key_space' = key_space]_vars



----------------------------------------------------------------------------
(* SETRANGE (SpecSetrange) *)

\* C32: SETRANGE key offset value keeps the bytes before offset, pads with
\* zero bytes up to offset, puts value at offset, keeps the old bytes after
\* offset + len(value), and replies with the length of the result.
C32_SetRange ==
    [][\A c \in ClientIds, k \in {b_k} :
          /\ ServesOnKey(c, k)
          /\ last'.how = "dispatched"
          /\ upper(last'.argv[1]) = b_SETRANGE
          /\ Len(last'.argv) = 4
          /\ IsInt(last'.argv[3]) /\ int(last'.argv[3]) >= 0
          /\ Has(key_space, k) => isinstance(key_space[k], "RedisStringObject")
          => LET old == SourceBytes(k)
                 offset == int(last'.argv[3])
                 value == last'.argv[4]
                 n == IF offset + Len(value) > Len(old) THEN offset + Len(value) ELSE Len(old)
                 result == [j \in 1..n |->
                               IF j > offset /\ j <= offset + Len(value) THEN value[j - offset]
                               ELSE IF j <= Len(old) THEN old[j]
                               ELSE 0]
             IN /\ last'.exc = "none"
                /\ last'.reply = RedisIntegerSerializationObject(n)
                /\ Has(key_space', k)
                /\ get_bytes(key_space'[k]) = result]_vars


\* the step serves an EXEC of client c, which is in NORMAL mode
ServesExecNormal(c) ==
    ServesCommand(c) /\ stat[c] = STAT_NORMAL /\ upper(last'.argv[1]) = b_EXEC
    /\ Len(last'.argv) = 1

\* C34: EXEC of a client in NORMAL mode replies with the error 'EXEC
\* without MULTI', runs no command other than the EXEC itself, leaves the
\* client in NORMAL mode with its queue as it was, and leaves the keyspace
\* unchanged.
C34_ExecWithoutMulti ==
    [][\A c \in ClientIds :
          ServesExecNormal(c) =>
            /\ last'.reply = RedisErrorStringSerializationObject("ERR", <<"EXEC without MULTI">>)
            /\ last'.ran = <<<<c, last'.argv>>>>
            /\ stat'[c] = STAT_NORMAL
            /\ multi_command_list' = multi_command_list
            /\ key_space' = key_space]_vars

\* EXEC has been refused in NORMAL mode while the keyspace held a key
C34_Witness ==
    /\ last.argv = <<b_EXEC>>
    /\ last.reply = RedisErrorStringSerializationObject("ERR", <<"EXEC without MULTI">>)
    /\ stat[last.c] = STAT_NORMAL
    /\ DOMAIN key_space # {}


\* the step serves cmd, without arguments, for client c in NORMAL mode
ServesBare(c, cmd) ==
    ServesCommand(c) /\ stat[c] = STAT_NORMAL /\ Len(last'.argv) = 1
    /\ upper(last'.argv[1]) = cmd

C36_RegistryIsRunning ==
    clients = {c \in NetClients : loop[c] = "running"}


\* C38: the mode and the queue belong to one connection.  While a client a
\* is in MULTI mode, a command of another client b in NORMAL mode is handed
\* to dispatch at once and is not queued; nothing b sends, its EXEC
\* included, runs or changes what a has queued or ends a's MULTI mode; and
\* an EXEC of a runs commands of a's queue only, in a's name.
C38_MultiIsPrivate ==
    [][\A a \in ClientIds : \A b \in ClientIds \ {a} :
          (stat[a] = STAT_MULTI /\ Serves(b) /\ Len(last'.argv) > 0)
          => /\ stat'[a] = STAT_MULTI
             /\ multi_command_list'[a] = multi_command_list[a]
             /\ \A i \in 1..Len(last'.ran) : last'.ran[i][1] = b
             /\ (stat[b] = STAT_NORMAL /\ upper(last'.argv[1]) # b_QUIT)
                   => /\ last'.how = "dispatched"
                      /\ last'.reply # QUEUED
                      /\ multi_command_list'[b] = multi_command_list[b]
                      /\ IsPrefix(last'.ran, <<<<b, last'.argv>>>>)
             /\ (stat[b] = STAT_MULTI /\ upper(last'.argv[1]) = b_EXEC)
                   => IsPrefix(Tail(last'.ran), Tagged(b, multi_command_list[b]))]_vars

\* a client in NORMAL mode has had SET executed at once while another
\* client was in MULTI mode with a command queued
C38_Witness ==
    \E a \in ClientIds :
       /\ stat[a] = STAT_MULTI
       /\ Len(multi_command_list[a]) > 0
       /\ last.c \in ClientIds \ {a}
       /\ stat[last.c] = STAT_NORMAL
       /\ last.how = "dispatched"
       /\ last.ran = <<<<last.c, <<b_SET, b_k, b_a>>>>>>
       /\ last.reply = RedisSimpleStringSerializationObject("OK")
       /\ b_k \in DOMAIN key_space


\* the request served by the step ended with an error: an exception escaped
\* or the reply is an error
EndsWithError ==
    \/ last'.exc # "none"
    \/ last'.reply # <<>> /\ last'.reply[1] = "ErrorString"

\* C39: a command that ends with an error leaves the keyspace as it was: no
\* key is created, removed or modified.
C39_ErrorsLeaveKeyspace ==
    [][\A c \in ClientIds :
          (ServesCommand(c) /\ last'.how = "dispatched" /\ EndsWithError)
          => key_space' = key_space]_vars


\* the amount the request argv adds: INCR 1, DECR -1, INCRBY its argument
Amount(argv) ==
    IF upper(argv[1]) = b_INCR THEN PyInt(1)
    ELSE IF upper(argv[1]) = b_DECR THEN PyInt(0 - 1)
    ELSE IntFromBytes(argv[3])

\* the step serves INCR, DECR or INCRBY with an integer amount for client
\* c on key k, which holds a string
ServesIntegerCommand(c, k) ==
    /\ ServesOnKey(c, k)
    /\ last'.how = "dispatched"
    /\ \/ upper(last'.argv[1]) \in {b_INCR, b_DECR} /\ Len(last'.argv) = 2
       \/ upper(last'.argv[1]) = b_INCRBY /\ Len(last'.argv) = 3 /\ IsInt(last'.argv[3])
    /\ Has(key_space, k)
    /\ isinstance(key_space[k], "RedisStringObject")

\* C40: the reply of INCR, DECR and INCRBY on a key holding a string is a
\* function of the bytes GET would return for it: when they parse as a
\* base-10 signed integer the command replies with that integer plus its
\* amount, whichever command left the value, and otherwise it is refused.
C40_ReplyFromBytes ==
    [][\A c \in ClientIds : \A k \in {b_k} :
          ServesIntegerCommand(c, k)
          => LET view == get_bytes(key_space[k]) IN
             IF IsInt(view)
             THEN /\ last'.exc = "none"
                  /\ last'.reply = <<"Integer">>
                        \o Tail(IntAdd(IntFromBytes(view), Amount(last'.argv)))
             ELSE last'.reply = RedisErrorStringSerializationObject("ERR",
                                   <<"value is not an integer or out of range">>)]_vars

====
